---- MODULE Spec2Model ----
(***************************************************************************)
(* A model of DF_NLP/api.py: the XML-to-text normaliser.                   *)
(*                                                                         *)
(* Strings are sequences of atoms.  An atom is a single space " ", a       *)
(* single newline "\n", or a word: a non-empty run of characters holding   *)
(* neither a space nor a newline ("Lorem", "-", ":", "None", ...).  The    *)
(* regular expressions of the extractor only look at spaces and newlines,  *)
(* so they act on atoms exactly as they act on characters.                 *)
(*                                                                         *)
(* An XML answer is a sequence of tokens: start tags, end tags, empty      *)
(* element tags and character data, one token per atom of character data.  *)
(***************************************************************************)
EXTENDS Naturals, Sequences, FiniteSets

VARIABLES
    pc,       \* where the call stands: "idle", "walk" (in the loop of process), "done"
    call,     \* the entry point that was called
    answer,   \* process / get_*_abstract: the raw XML answer (tokens)
    api,      \* process: the publisher tag
    arg,      \* a handler called directly: its element argument
    acc,      \* a handler called directly: its text argument
    patched,  \* whether api._process_def_list is monkeypatched (Tests/test_api.py:60)
    root,     \* process: the located root element
    k,        \* process: the index of the next child of root
    text,     \* process: the local variable text (api.py:243)
    opens,    \* the number of open(path, "a+") calls made
    sink,     \* the strings written to the file, in order
    result,   \* "none" while running, then "ok" or the exception raised
    ret,      \* the value returned by a handler or an abstract extractor
    retNone,  \* whether the value returned is None rather than a str
    invs,     \* concurrent calls of process: the locals of each invocation
    files,    \* concurrent calls of process: what each path has been written
    raw,      \* _process_xml alone: the string it is first given (tokens)
    clean,    \* _process_xml alone: what it returned, call after call
    corpus,   \* corpus.search: the references, in the order of their keys
    disk,     \* corpus.search: the file of each reference in dirpath
    srch      \* corpus.search: threshold, counter, position in the loop,
              \* how the call stands and what its last iteration did

\* the state of a single call, and that of the concurrent calls
one == <<pc, call, answer, api, arg, acc, patched, root, k, text, opens, sink,
         result, ret, retNone>>
par == <<invs, files>>
\* the state of the pre-filter run alone, and that of corpus.search
ext == <<raw, clean, corpus, disk, srch>>
vars == <<one, par, ext>>

\* api.py:10, the common namespace used in Elsevier XML
ns == "{http://www.elsevier.com/xml/common/dtd}"

\* api.py:271, the namespace of the Dublin Core elements
dc == "{http://purl.org/dc/elements/1.1/}"

(***************************************************************************)
(* ElementTree elements.  text and tail are None in Python when the        *)
(* element holds no character data there; ElementTree never yields an      *)
(* empty string, so the empty sequence stands for None.                    *)
(***************************************************************************)
None == <<>>

Element(tag, txt, children, tail) ==
    [tag |-> tag, text |-> txt, children |-> children, tail |-> tail]

\* the result of Element.find() when nothing matches (Python's None)
NoElement == Element("#None", None, <<>>, None)

\* f"{x.text}": Python formats None as the word None
Str(t) == IF t = None THEN <<"None">> ELSE t

\* a handler either returns a text or raises
Return(t) == [err |-> "none", text |-> t]
Raise(e) == [err |-> e, text |-> <<>>]

\* F applied to the value of v, v being evaluated once
With(v, F(_)) == CHOOSE out \in {F(x) : x \in {v}} : TRUE

\* a handler's result r: an exception propagates, a returned text goes on to F
OnReturn(r, F(_)) ==
    CHOOSE out \in {IF x.err # "none" THEN x ELSE F(x.text) : x \in {r}} : TRUE

IsSpace(c) == c = " "
IsNewline(c) == c = "\n"

Take(s, n) == SubSeq(s, 1, n)

\* the length of the run of spaces and newlines that starts at s[i]
WsRun(s, i) ==
    LET stops == {j \in i..Len(s) : ~(IsSpace(s[j]) \/ IsNewline(s[j]))}
    IN IF stops = {} THEN Len(s) + 1 - i
       ELSE (CHOOSE j \in stops : \A j2 \in stops : j <= j2) - i

\* CollapseNewlines where only the first run is replaced, as count=1 would do
CollapseNewlines_FirstRunOnly(s) ==
    LET RECURSIVE Go(_)
        Go(i) ==
            IF i > Len(s) THEN <<>>
            ELSE With(WsRun(s, i), LAMBDA n :
                 IF n = 0 THEN <<s[i]>> \o Go(i + 1)
                 ELSE IF \E j \in i..(i + n - 1) : IsNewline(s[j])
                      THEN <<" ">> \o SubSeq(s, i + n, Len(s))
                      ELSE SubSeq(s, i, i + n - 1) \o Go(i + n))
    IN Go(1)

\* re.sub("( *\n *)+", " ", text): a maximal run of spaces and newlines
\* holding a newline becomes one space; a run of spaces alone is kept
CollapseNewlines(s) ==
    LET RECURSIVE Go(_)
        Go(i) ==
            IF i > Len(s) THEN <<>>
            ELSE With(WsRun(s, i), LAMBDA n :
                 IF n = 0 THEN <<s[i]>> \o Go(i + 1)
                 ELSE IF \E j \in i..(i + n - 1) : IsNewline(s[j])
                      THEN <<" ">> \o Go(i + n)
                      ELSE SubSeq(s, i, i + n - 1) \o Go(i + n))
    IN Go(1)

\* re.sub("^ ", "", text)
StripLeadingSpace(s) == IF s # <<>> /\ IsSpace(Head(s)) THEN Tail(s) ELSE s

(***************************************************************************)
(* ElementTree path lookups                                                *)
(***************************************************************************)
\* all elements below el, in document order (el itself excluded)
RECURSIVE Descendants(_)
DescendantsOfAll(children) ==
    LET RECURSIVE Go(_)
        Go(i) == IF i > Len(children) THEN <<>>
                 ELSE <<children[i]>> \o Descendants(children[i]) \o Go(i + 1)
    IN Go(1)
Descendants(el) == DescendantsOfAll(el.children)

\* FindAllDeep looking at the children and the grandchildren only
FindAllDeep_TwoLevels(el, tag) ==
    LET RECURSIVE Go(_)
        Go(i) == IF i > Len(el.children) THEN <<>>
                 ELSE <<el.children[i]>> \o el.children[i].children \o Go(i + 1)
    IN SelectSeq(Go(1), LAMBDA e : e.tag = tag)

\* el.findall(".//tag")
FindAllDeep(el, tag) == SelectSeq(Descendants(el), LAMBDA e : e.tag = tag)

\* el.find(".//tag")
FindDeep(el, tag) ==
    With(FindAllDeep(el, tag),
         LAMBDA all : IF all = <<>> THEN NoElement ELSE all[1])

\* el.findall("./tag") and el.find("tag")
FindAllChild(el, tag) == SelectSeq(el.children, LAMBDA e : e.tag = tag)
FindChild(el, tag) ==
    With(FindAllChild(el, tag),
         LAMBDA all : IF all = <<>> THEN NoElement ELSE all[1])

\* el.find("./a/b"): the first b child of any a child, in document order
FindPath2(el, a, b) ==
    LET as == FindAllChild(el, a)
        RECURSIVE Go(_)
        Go(i) == IF i > Len(as) THEN <<>>
                 ELSE FindAllChild(as[i], b) \o Go(i + 1)
    IN With(Go(1), LAMBDA all : IF all = <<>> THEN NoElement ELSE all[1])

\* bool(element): an Element is true when it has children; None is false
Truthy(el) == el # NoElement /\ Len(el.children) > 0

(***************************************************************************)
(* XML answers as token sequences.  k is the kind of token, p the          *)
(* namespace prefix of a tag ("", "ce" or "dc"), v the local name of a tag *)
(* or the atom of character data, a the attributes of a tag.               *)
(***************************************************************************)
\* xmlns:ce="http://www.elsevier.com/xml/common/dtd", Tests/test_api.py:14
XmlnsCe == "xmlns:ce"
\* xmlns:dc="http://purl.org/dc/elements/1.1/", Tests/test_api.py:182
XmlnsDc == "xmlns:dc"

\* the prefix an xmlns attribute declares
Declares(a) == IF a = XmlnsCe THEN {"ce"} ELSE IF a = XmlnsDc THEN {"dc"} ELSE {}

Open(p, v, a) == [k |-> "open", p |-> p, v |-> v, a |-> a]
Close(p, v) == [k |-> "close", p |-> p, v |-> v, a |-> ""]
Empty(p, v, a) == [k |-> "empty", p |-> p, v |-> v, a |-> a]
Chars(c) == [k |-> "text", p |-> "", v |-> c, a |-> ""]

IsWs(tok) == tok.k = "text" /\ (IsSpace(tok.v) \/ IsNewline(tok.v))

\* the length of the run of spaces and newlines that starts at toks[i]
WsTokRun(toks, i) ==
    LET stops == {j \in i..Len(toks) : ~IsWs(toks[j])}
    IN IF stops = {} THEN Len(toks) + 1 - i
       ELSE (CHOOSE j \in stops : \A j2 \in stops : j <= j2) - i

\* re.sub(r'\n\s*', " ", answer), api.py:23
Flatten(toks) ==
    LET RECURSIVE Go(_)
        Go(i) ==
            IF i > Len(toks) THEN <<>>
            ELSE IF toks[i].k = "text" /\ IsNewline(toks[i].v)
            THEN <<Chars(" ")>> \o Go(i + WsTokRun(toks, i))
            ELSE <<toks[i]>> \o Go(i + 1)
    IN Go(1)

\* re.sub(A + ".+?" + A, A, answer) for a tag A written without attributes:
\* from one A, over at least one character, up to the nearest later A
\* (api.py:25 with A = <body>, api.py:26 with A = </body>)
CollapsePair(toks, tag) ==
    LET RECURSIVE Go(_)
        Go(i) ==
            IF i > Len(toks) THEN <<>>
            ELSE With({j \in (i + 2)..Len(toks) : toks[j] = tag}, LAMBDA later :
                 IF toks[i] = tag /\ later # {}
                 THEN <<tag>> \o Go((CHOOSE j \in later : \A j2 \in later : j <= j2) + 1)
                 ELSE <<toks[i]>> \o Go(i + 1))
    IN Go(1)

\* re.sub(" +", " ", answer), api.py:115
FixMultispaces(toks) ==
    SelectSeq([i \in 1..Len(toks) |->
                  IF i > 1 /\ toks[i] = Chars(" ") /\ toks[i - 1] = Chars(" ")
                  THEN Chars("") ELSE toks[i]],
              LAMBDA tok : tok # Chars(""))

(***************************************************************************)
(* _process_xml, api.py:13-117.  The answers of this model are written     *)
(* over the tags test, article, body, book-part, abstract, description,    *)
(* sec, p, title, label, list, item, def-list, def-item, term, def, wrong  *)
(* and ce:sections, ce:section, ce:para, ce:section-title, ce:label,       *)
(* ce:list, ce:def-list, ce:def-term, ce:def-description, dc:description,  *)
(* and the strings given to the pre-filter alone over body and the         *)
(* elements that are replaced by a token (tables, figures, formulas,       *)
(* algorithms).  The other substitutions of api.py:28-113 match none of    *)
(* these tags and leave such a string as it is.                            *)
(***************************************************************************)
\* The substitutions of api.py:83-109 that put a token in the place of an
\* element, in the order the code applies them.  p:v is the name of the
\* element, out the token, trail whether the pattern ends with
\* ( *</p:v>)* (api.py:87).  The start tags of these elements are written
\* without attributes in the strings of this model.
Placeholder(p, v, out, trail) == [p |-> p, v |-> v, out |-> out, trail |-> trail]
Placeholders ==
    <<Placeholder("mml", "math", "[Formula]", FALSE),          \* api.py:83
      Placeholder("", "disp-formula", "[Formula]", FALSE),      \* api.py:85
      Placeholder("ce", "formula", "[Formula]", TRUE),          \* api.py:87
      Placeholder("", "inline-formula", "[Formula]", FALSE),    \* api.py:89
      Placeholder("", "disp-formula", "[Formula]", FALSE),      \* api.py:91
      Placeholder("ce", "inline-figure", "[Inline Fig.]", FALSE), \* api.py:94
      Placeholder("ce", "figure", "[Fig.]", FALSE),             \* api.py:96
      Placeholder("", "fig", "[Fig.]", FALSE),                  \* api.py:97
      Placeholder("", "algorithm", "[Algo]", FALSE),            \* api.py:106
      Placeholder("ce", "table", "[Table]", FALSE),             \* api.py:108
      Placeholder("", "table-wrap", "[Table]", FALSE)>>         \* api.py:109

\* re.sub('<p:v[...]*>.+?</p:v>', out, answer): from a start tag p:v, over
\* at least one character, up to the nearest later end tag p:v
Substitute(toks, rule) ==
    LET open == Open(rule.p, rule.v, "")
        close == Close(rule.p, rule.v)
        \* the index after the ( *</p:v>)* that starts at toks[i]
        RECURSIVE AfterTrail(_)
        AfterTrail(i) ==
            With({n \in i..Len(toks) : toks[n] # Chars(" ")}, LAMBDA solid :
            IF solid = {} THEN i
            ELSE With(CHOOSE n \in solid : \A n2 \in solid : n <= n2, LAMBDA n :
                 IF toks[n] = close THEN AfterTrail(n + 1) ELSE i))
        RECURSIVE Go(_)
        Go(i) ==
            IF i > Len(toks) THEN <<>>
            ELSE With({j \in (i + 2)..Len(toks) : toks[j] = close}, LAMBDA later :
                 IF toks[i] = open /\ later # {}
                 THEN With(CHOOSE j \in later : \A j2 \in later : j <= j2, LAMBDA j :
                      <<Chars(rule.out)>>
                      \o Go(IF rule.trail THEN AfterTrail(j + 1) ELSE j + 1))
                 ELSE <<toks[i]>> \o Go(i + 1))
    IN IF \A i \in 1..Len(toks) : toks[i] # open THEN toks ELSE Go(1)

\* api.py:83-109, one substitution after the other
SubstituteAll(toks) ==
    LET RECURSIVE Go(_, _)
        Go(n, ts) == IF n > Len(Placeholders) THEN ts
                     ELSE With(Substitute(ts, Placeholders[n]), LAMBDA t2 :
                          Go(n + 1, t2))
    IN Go(1, toks)

_process_xml(toks) ==
    With(Flatten(toks), LAMBDA a1 :
    With(CollapsePair(a1, Open("", "body", "")), LAMBDA a2 :
    With(CollapsePair(a2, Close("", "body")), LAMBDA a3 :
    With(SubstituteAll(a3), LAMBDA a4 :
    FixMultispaces(a4)))))

(***************************************************************************)
(* ET.fromstring: the tree of a token sequence, or ParseError              *)
(***************************************************************************)
\* the tag ElementTree gives an element: {uri}local for a prefixed name
QName(p, v) == IF p = "ce" THEN ns \o v ELSE IF p = "dc" THEN dc \o v ELSE v

\* character data c arrives inside el: it extends el.text before the first
\* child, and the tail of the last child after it
AddText(el, c) ==
    LET n == Len(el.children) IN
    IF n = 0 THEN [el EXCEPT !.text = @ \o <<c>>]
    ELSE [el EXCEPT !.children[n].tail = @ \o <<c>>]

Parsed(el) == [ok |-> TRUE, el |-> el]
ParseError == [ok |-> FALSE, el |-> NoElement]

\* The state of the parser.  stack: the open elements, innermost last, each
\* with the name it was opened under and the prefixes bound inside it; top: the finished document element, NoElement before it is
\* closed; ok: FALSE once the input is found not well-formed
ParserStart == [ok |-> TRUE, stack |-> <<>>, top |-> NoElement]
Malformed == [ok |-> FALSE, stack |-> <<>>, top |-> NoElement]

\* el is complete: it joins its parent, or is the document element
Attach(st, el, rest) ==
    IF rest = <<>> THEN [st EXCEPT !.stack = <<>>, !.top = el]
    ELSE [st EXCEPT !.stack = [rest EXCEPT ![Len(rest)].el.children = Append(@, el)]]

\* the parser reads one token
Feed(st, tok) ==
    LET n == Len(st.stack)
        bound == Declares(tok.a) \cup (IF n > 0 THEN st.stack[n].bound ELSE {})
        fresh == Element(QName(tok.p, tok.v), None, <<>>, None)
    IN
    IF ~st.ok THEN st
    ELSE IF tok.k = "text"
    THEN IF n = 0
         THEN IF IsWs(tok) THEN st ELSE Malformed
         ELSE [st EXCEPT !.stack[n].el = AddText(@, tok.v)]
    ELSE IF tok.k \in {"open", "empty"} /\ n = 0 /\ st.top # NoElement
    THEN Malformed               \* junk after document element
    ELSE IF tok.k \in {"open", "empty"} /\ tok.p # "" /\ tok.p \notin bound
    THEN Malformed               \* unbound prefix
    ELSE IF tok.k = "open"
    THEN [st EXCEPT !.stack = Append(@, [el |-> fresh, p |-> tok.p,
                                         v |-> tok.v, bound |-> bound])]
    ELSE IF tok.k = "empty"
    THEN Attach(st, fresh, st.stack)
    ELSE \* tok.k = "close"
         IF n = 0 \/ st.stack[n].p # tok.p \/ st.stack[n].v # tok.v
         THEN Malformed          \* mismatched tag
         ELSE Attach(st, st.stack[n].el, Take(st.stack, n - 1))

\* ET.fromstring(answer), api.py:235
fromstring(toks) ==
    LET RECURSIVE Go(_, _)
        Go(i, st) ==
            IF i > Len(toks)
            THEN IF st.ok /\ st.stack = <<>> /\ st.top # NoElement
                 THEN Parsed(st.top) ELSE ParseError
            ELSE With(Feed(st, toks[i]), LAMBDA st2 : Go(i + 1, st2))
    IN Go(1, ParserStart)

(***************************************************************************)
(* The answers fed to the model.  A document is written as a tree of       *)
(* [p, v, a, text, children, tail] and turned into the string a publisher  *)
(* would send by Serialize.                                                *)
(***************************************************************************)
Node(p, v, txt, children) ==
    [p |-> p, v |-> v, a |-> "", text |-> txt, children |-> children,
     tail |-> None]

CharData(txt) == [i \in 1..Len(txt) |-> Chars(txt[i])]

RECURSIVE Serialize(_)
Serialize(node) ==
    LET RECURSIVE Kids(_)
        Kids(i) == IF i > Len(node.children) THEN <<>>
                   ELSE Serialize(node.children[i]) \o Kids(i + 1)
    IN (IF node.text = None /\ node.children = <<>>
        THEN <<Empty(node.p, node.v, node.a)>>
        ELSE <<Open(node.p, node.v, node.a)>> \o CharData(node.text)
             \o Kids(1) \o <<Close(node.p, node.v)>>)
       \o CharData(node.tail)

\* all sequences over S of length at most n
SeqsUpTo(S, n) == UNION {[1..m -> S] : m \in 0..n}

(***************************************************************************)
(* The inputs: bounded sets of documents in both tag spellings, "ce" for   *)
(* the Elsevier namespace and "" for the Springer and IEEE names.          *)
(***************************************************************************)
MaxTop == 2        \* children of the root of a document given to process
MaxParaKids == 2   \* children of a paragraph given to _process_paragraph
MaxSecKids == 2    \* children of a section given to _process_section
MaxDefKids == 2    \* children of a def-list given to _process_def_list

Spellings == {"ce", ""}
ParaName(sp) == IF sp = "ce" THEN "para" ELSE "p"
TitleName(sp) == IF sp = "ce" THEN "section-title" ELSE "title"
SecName(sp) == IF sp = "ce" THEN "section" ELSE "sec"

Lorem == <<"Lorem", " ", "ipsum">>

Label(sp) == Node(sp, "label", <<"Label">>, <<>>)
Title(sp) == Node(sp, TitleName(sp), <<"Title">>, <<>>)
Para(sp, txt, kids) == Node(sp, ParaName(sp), txt, kids)
Sec(sp, kids) == Node(sp, SecName(sp), None, kids)
Wrong == Node("", "wrong", None, <<>>)
BookPart == Node("", "book-part", None, <<>>)
Item(sp, word) == Node("", "item", None, <<Para(sp, <<word>>, <<>>)>>)
List(sp) ==
    Node(sp, "list", None, <<Item(sp, "List_item1"), Item(sp, "List_item2")>>)
DefList(sp, kids) == Node(sp, "def-list", None, kids)

\* an Elsevier term and its description; a Springer def-item, complete,
\* without its term and without its definition
DefTerm == Node("ce", "def-term", <<"Test">>, <<>>)
DefDescription == Node("ce", "def-description", Lorem, <<>>)
Term == Node("", "term", <<"Test">>, <<>>)
Def == Node("", "def", None, <<Para("", Lorem, <<>>)>>)
DefItem == Node("", "def-item", None, <<Term, Def>>)
DefItemNoTerm == Node("", "def-item", None, <<Def>>)
DefItemNoDef == Node("", "def-item", None, <<Term>>)
\* a def-item whose definition comes before its term
DefItemReversed == Node("", "def-item", None, <<Def, Term>>)

DefListKids(sp) ==
    IF sp = "ce" THEN {DefTerm, DefDescription, Label(sp), Wrong}
    ELSE {DefItem, DefItemNoTerm, DefItemNoDef, DefItemReversed, Label(sp),
          Wrong}
DefLists(sp) ==
    {DefList(sp, kids) : kids \in SeqsUpTo(DefListKids(sp), MaxDefKids)}

\* a complete def-list of one entry
DefListOne(sp) ==
    DefList(sp, IF sp = "ce" THEN <<DefTerm, DefDescription>> ELSE <<DefItem>>)

ParaKids(sp) ==
    {Label(sp), List(sp), Title(sp), Para(sp, Lorem, <<>>), Wrong,
     DefListOne(sp), DefList(sp, <<>>), DefList(sp, <<Label(sp)>>),
     DefList(sp, <<Wrong>>), DefList("", <<DefItemNoTerm>>)}
\* the paragraph of Tests/test_api.py:50-56 and 69-72
TestParagraph(sp) ==
    Para(sp, Lorem, <<Label(sp), List(sp), DefList(sp, <<>>), Title(sp),
                      Para(sp, Lorem, <<>>)>>)
\* lists: of two items; with a sub-list in its first item and a paragraph
\* inside a paragraph of the sub-list; with paragraphs of the other
\* spelling; without items; with an item that holds no paragraph
NestedList(sp) ==
    Node(sp, "list", None,
         <<Node("", "item", None,
                <<Para(sp, <<"b">>, <<>>),
                  Node(sp, "list", None,
                       <<Node("", "item", None,
                              <<Para(sp, <<"c">>, <<Para(sp, <<"d">>, <<>>)>>)>>)>>)>>),
           Item(sp, "f")>>)
ListShapes(sp) ==
    {List(sp), NestedList(sp),
     Node(sp, "list", None, <<Item(IF sp = "ce" THEN "" ELSE "ce", "b")>>),
     Node(sp, "list", None, <<>>),
     Node(sp, "list", None, <<Node("", "item", None, <<Title(sp)>>)>>)}
ListParagraphs(sp) == {Para(sp, <<"a">>, <<l>>) : l \in ListShapes(sp)}

\* paragraphs with text after their children, with elements other than
\* paragraphs inside a list, and with elements inside a title and inside
\* the paragraph of a list item
Tailed(node, word) == [node EXCEPT !.tail = <<word>>]
NoisyParagraphs(sp) ==
    {Para(sp, <<"a">>, <<Tailed(List(sp), "t"), Tailed(Title(sp), "u"),
                         Tailed(Para(sp, <<"b">>, <<>>), "v")>>),
     Para(sp, <<"a">>,
          <<Node(sp, "list", <<"l">>,
                 <<Tailed(Wrong, "t"),
                   Node("", "item", <<"i">>,
                        <<Wrong, Tailed(Title(sp), "u"),
                          Para(sp, <<"b">>, <<Tailed(Wrong, "v")>>)>>)>>)>>),
     Para(sp, <<"a">>, <<[Title(sp) EXCEPT !.children = <<Tailed(Wrong, "t")>>]>>)}

Paragraphs(sp) ==
    {Para(sp, txt, kids) : txt \in {None, Lorem},
                           kids \in SeqsUpTo(ParaKids(sp), MaxParaKids)}
    \cup {TestParagraph(sp)}
    \cup ListParagraphs(sp)
    \cup NoisyParagraphs(sp)

SecKids(sp) ==
    {Label(sp), Title(sp), Wrong, Para(sp, None, <<>>), Para(sp, Lorem, <<>>),
     Para(sp, Lorem, <<Wrong>>), Para(sp, None, <<DefList("", <<DefItemNoTerm>>)>>),
     Sec(sp, <<>>), Sec(sp, <<Para(sp, Lorem, <<>>)>>)}
Sections(sp) == {Sec(sp, kids) : kids \in SeqsUpTo(SecKids(sp), MaxSecKids)}

\* the children of the root of a document given to process
TopElems(sp) ==
    {Sec(sp, <<>>),
     Sec(sp, <<Title(sp), Label(sp), Para(sp, None, <<>>)>>),
     Sec(sp, <<Title(sp), Para(sp, Lorem, <<>>)>>),
     Sec(sp, <<Sec(sp, <<Para(sp, Lorem, <<>>)>>)>>),
     Sec(sp, <<Wrong>>),
     Para(sp, None, <<>>),
     Para(sp, Lorem, <<Label(sp)>>),
     Para(sp, Lorem, <<List(sp)>>),
     Para(sp, None, <<DefListOne(sp)>>),
     Para(sp, None, <<DefList("", <<DefItemNoTerm>>)>>),
     Para(sp, None, <<DefList(sp, <<Label(sp)>>)>>),
     Para(sp, Lorem, <<Wrong>>),
     Wrong, BookPart, Label(sp)}

\* <test>...</test>, declaring the prefix ce when ce is TRUE
Test(ce, kids) ==
    [Node("", "test", None, kids) EXCEPT !.a = IF ce THEN XmlnsCe ELSE ""]
SectionsDoc(kids) == Test(TRUE, <<Node("ce", "sections", None, kids)>>)
BodyDoc(kids) == Test(FALSE, <<Node("", "body", None, kids)>>)

\* Tests/test_api.py:147, 131-135: an empty section and an empty paragraph
EmptyKids(sp) == <<Sec(sp, <<>>), Para(sp, None, <<>>)>>

\* answers that are not well-formed, or well-formed only after the pre-filter,
\* or whose root is missing, misplaced, nested deeper or without children
OddAnswers ==
    {Serialize(Test(FALSE, <<>>)),
     Serialize(Test(TRUE, <<>>)),
     \* the body is the document element: ".//body" looks below it only
     Serialize(Node("", "body", None, EmptyKids(""))),
     Serialize(Test(FALSE, <<Node("", "article", None,
                                <<Node("", "body", None, EmptyKids(""))>>)>>)),
     \* a root holding character data and no element
     Serialize(Test(FALSE, <<Node("", "body", Lorem, <<>>)>>)),
     \* the two spellings in one document
     Serialize(Test(TRUE, <<Node("", "body", None, EmptyKids("ce"))>>)),
     \* the end tag of the document element is missing
     Take(Serialize(BodyDoc(EmptyKids(""))), Len(Serialize(BodyDoc(EmptyKids("")))) - 1),
     <<Open("", "test", ""), Open("", "body", ""), Close("", "test"),
       Close("", "body")>>,
     \* the prefix ce is not declared
     Serialize(Test(FALSE, <<Node("ce", "sections", None, EmptyKids("ce"))>>)),
     \* indented, with a line break inside the text of a paragraph
     <<Open("", "test", ""), Chars("\n"), Chars(" "), Open("", "body", ""),
       Chars("\n"), Chars(" "), Chars(" "), Open("", "p", ""), Chars("Lorem"),
       Chars(" "), Chars("\n"), Chars(" "), Chars(" "), Chars("ipsum"),
       Close("", "p"), Chars("\n"), Chars(" "), Close("", "body"), Chars("\n"),
       Close("", "test"), Chars("\n")>>,
     \* a duplicated body wrapper in front of the genuine body
     <<Open("", "test", ""), Open("", "body", ""), Empty("", "wrong", ""),
       Close("", "body"), Open("", "body", ""), Open("", "p", ""),
       Chars("Lorem"), Close("", "p"), Close("", "body"), Close("", "test")>>}

Answers ==
    {Serialize(SectionsDoc(kids)) : kids \in SeqsUpTo(TopElems("ce"), MaxTop)}
    \cup {Serialize(BodyDoc(kids)) : kids \in SeqsUpTo(TopElems(""), MaxTop)}
    \cup OddAnswers

\* the api parameter: the three values of Api (api.py:8) and another one
ApiNames == {"elsevier", "ieee", "springer", "wrong"}

\* the text already found that a handler is given
Accs == {<<>>, <<"Title", "\n">>, <<" ", "\n", "Title", " ", " ", "\n">>}

\* long_string of test_get_springer_abstract, Tests/test_api.py:191-194
TestSpringerAbstract ==
    Serialize(Test(FALSE, <<Node("", "abstract", None,
        <<Title(""),
          Sec("", <<Para("", <<"Lorem", " ", "ipsum", " ", "sec">>, <<>>)>>),
          Para("", <<"Lorem", " ", "ipsum", " ", "p">>, <<>>)>>)>>))

\* answers given to get_springer_abstract
AbstractKids ==
    {Title(""), Sec("", <<Para("", Lorem, <<>>)>>), Para("", Lorem, <<>>),
     Wrong, Label("")}
AbstractAnswers ==
    {Serialize(Test(FALSE, <<Node("", "abstract", None, kids)>>)) :
         kids \in SeqsUpTo(AbstractKids, MaxTop)}
    \cup {Serialize(Test(FALSE, <<>>)),
          Serialize(Test(FALSE, <<Node("", "abstract", Lorem, <<>>)>>)),
          TestSpringerAbstract}

\* <test xmlns:dc="...">...</test>, Tests/test_api.py:182
TestDc(kids) == [Node("", "test", None, kids) EXCEPT !.a = XmlnsDc]

Description(txt, kids) == Node("dc", "description", txt, kids)
Article(kids) == Node("", "article", None, kids)

\* a text broken over two lines, the second one indented
LoremIndented == <<"Lorem", "\n", " ", " ", "ipsum">>

\* answers given to get_elsevier_abstract
DescriptionKids ==
    {Description(Lorem, <<>>), Description(None, <<>>),
     Description(LoremIndented, <<>>), Description(Lorem, <<Wrong>>),
     Node("", "description", Lorem, <<>>),
     Article(<<Description(Lorem, <<>>)>>), Wrong}
ElsevierAbstractAnswers ==
    {Serialize(TestDc(kids)) : kids \in SeqsUpTo(DescriptionKids, MaxTop)}
    \cup {\* the description is the document element
          Serialize([Description(Lorem, <<>>) EXCEPT !.a = XmlnsDc]),
          \* the prefix dc is not declared
          Serialize(Test(FALSE, <<Description(Lorem, <<>>)>>))}

\* answers given to get_ieee_abstract
ArticleKids ==
    {Article(<<Node("", "abstract", Lorem, <<>>)>>),
     Article(<<Node("", "abstract", None, <<>>)>>),
     Article(<<Node("", "abstract", None, <<Para("", Lorem, <<>>)>>)>>),
     Article(<<Node("", "abstract", LoremIndented, <<>>)>>),
     Article(<<>>),
     Node("", "abstract", Lorem, <<>>),
     Node("", "body", None, <<Article(<<Node("", "abstract", Lorem, <<>>)>>)>>),
     Wrong}
IeeeAbstractAnswers ==
    {Serialize(Test(FALSE, kids)) : kids \in SeqsUpTo(ArticleKids, MaxTop)}
    \cup {\* the article is the document element
          Serialize(Article(<<Node("", "abstract", Lorem, <<>>)>>)),
          \* the end tag of the document element is missing
          <<Open("", "test", ""), Open("", "article", ""), Close("", "article")>>}

\* Documents whose texts are all different: the n-th text of the document,
\* in document order, is the n-th of these words
Words ==
    <<"w1", "w2", "w3", "w4", "w5", "w6", "w7", "w8", "w9", "w10", "w11",
      "w12", "w13", "w14", "w15", "w16">>
Word(n) == IF n <= Len(Words) THEN Words[n] ELSE "w"

\* node with its texts replaced, the first of them by the n-th word; next
\* is the number of the first word not used
RECURSIVE Renumber(_, _)
Renumber(node, n) ==
    LET RECURSIVE Kids(_, _, _)
        Kids(i, m, done) ==
            IF i > Len(node.children) THEN [kids |-> done, next |-> m]
            ELSE With(Renumber(node.children[i], m), LAMBDA r :
                 Kids(i + 1, r.next, Append(done, r.node)))
    IN With(Kids(1, IF node.text = None THEN n ELSE n + 1, <<>>), LAMBDA ks :
       [node |-> [node EXCEPT !.text = IF @ = None THEN None ELSE <<Word(n)>>,
                              !.children = ks.kids],
        next |-> ks.next])

Numbered(node) == Renumber(node, 1).node

\* the sections, paragraphs and def-lists whose texts are numbered
NumberedInputs(sp) ==
    {Numbered(node) : node \in Sections(sp) \cup Paragraphs(sp) \cup DefLists(sp)}

\* the element a test hands to a handler: ET.fromstring(...).find(".//tag")
\* on <test xmlns:ce="...">node</test> (Tests/test_api.py:18-19, 58-59)
Parse(node) ==
    With(Serialize(Test(TRUE, <<node>>)), LAMBDA str :
    With(fromstring(str), LAMBDA tree :
    FindDeep(tree.el, QName(node.p, node.v))))

(***************************************************************************)
(* _process_def_list, api.py:120-146                                       *)
(***************************************************************************)
\* one iteration of the loop at api.py:133-145
DefListChild(child, t) ==
    IF child.tag = ns \o "def-term"
    THEN Return(t \o <<"\n", "-", " ">> \o Str(child.text) \o <<":", " ">>)
    ELSE IF child.tag = ns \o "def-description"
    THEN Return(t \o Str(child.text))
    ELSE IF child.tag = "def-item"
    THEN With(FindChild(child, "term"), LAMBDA term :
         With(FindPath2(child, "def", "p"), LAMBDA defp :
         IF term = NoElement \/ defp = NoElement
         THEN Raise("AttributeError")
         ELSE Return(t \o <<"-", " ">> \o Str(term.text) \o <<":", " ">>
                          \o Str(defp.text))))
    ELSE Raise("ValueError")

_process_def_list(dlist, t) ==
    LET RECURSIVE Loop(_, _)
        Loop(i, u) ==
            IF i > Len(dlist.children) THEN Return(u)
            ELSE OnReturn(DefListChild(dlist.children[i], u),
                          LAMBDA u2 : Loop(i + 1, u2))
    IN Loop(1, t)

\* the stand-in of Tests/test_api.py:47-48, 66-67
mockreturn(element, t) == Return(t \o <<" ", "[def-list]">>)

\* api._process_def_list as looked up at call time: monkeypatch.setattr
\* (Tests/test_api.py:60, 76) replaces the module attribute
call_process_def_list(dlist, t) ==
    IF patched THEN mockreturn(dlist, t) ELSE _process_def_list(dlist, t)

(***************************************************************************)
(* _process_paragraph, api.py:149-188                                      *)
(***************************************************************************)
RECURSIVE _process_paragraph(_, _)

\* JoinItems with the items joined by nothing: "".join(...)
JoinItems_NoSeparator(items) ==
    LET RECURSIVE Go(_)
        Go(i) == IF i > Len(items) THEN <<>>
                 ELSE <<"-", " ">> \o Str(items[i].text) \o Go(i + 1)
    IN Go(1)

\* JoinItems with the last item first
JoinItems_LastFirst(items) ==
    LET RECURSIVE Go(_)
        Go(i) == IF i < 1 THEN <<>>
                 ELSE (IF i < Len(items) THEN <<"\n">> ELSE <<>>)
                      \o <<"-", " ">> \o Str(items[i].text) \o Go(i - 1)
    IN Go(Len(items))

\* "\n".join([f"- {i.text}" for i in items]), api.py:171, 175
JoinItems(items) ==
    LET RECURSIVE Go(_)
        Go(i) == IF i > Len(items) THEN <<>>
                 ELSE (IF i > 1 THEN <<"\n">> ELSE <<>>)
                      \o <<"-", " ">> \o Str(items[i].text) \o Go(i + 1)
    IN Go(1)

\* one iteration of the loop at api.py:164-184
\* ParagraphChild where the text after a child is added to the paragraph
ParagraphChild_EmitsTail(child, t) ==
    IF child.tag = ns \o "label" \/ child.tag = "label"
    THEN Return(t)
    ELSE OnReturn(
             IF child.tag = ns \o "list"
             THEN Return(t \o JoinItems(FindAllDeep(child, ns \o "para")))
             ELSE IF child.tag = "list"
             THEN Return(t \o JoinItems(FindAllDeep(child, "p")))
             ELSE IF child.tag = ns \o "def-list" \/ child.tag = "def-list"
             THEN call_process_def_list(child, t)
             ELSE IF child.tag = ns \o "section-title" \/ child.tag = "title"
             THEN Return(t \o Str(child.text) \o <<"\n">>)
             ELSE IF child.tag = ns \o "para" \/ child.tag = "p"
             THEN _process_paragraph(child, t)
             ELSE Raise("ValueError"),
             LAMBDA u : Return(u \o <<"\n">> \o child.tail))

ParagraphChild(child, t) ==
    IF child.tag = ns \o "label" \/ child.tag = "label"
    THEN Return(t)
    ELSE OnReturn(
             IF child.tag = ns \o "list"
             THEN Return(t \o JoinItems(FindAllDeep(child, ns \o "para")))
             ELSE IF child.tag = "list"
             THEN Return(t \o JoinItems(FindAllDeep(child, "p")))
             ELSE IF child.tag = ns \o "def-list" \/ child.tag = "def-list"
             THEN call_process_def_list(child, t)
             ELSE IF child.tag = ns \o "section-title" \/ child.tag = "title"
             THEN Return(t \o Str(child.text) \o <<"\n">>)
             ELSE IF child.tag = ns \o "para" \/ child.tag = "p"
             THEN _process_paragraph(child, t)
             ELSE Raise("ValueError"),
             LAMBDA u : Return(u \o <<"\n">>))

_process_paragraph(para, t) ==
    LET RECURSIVE Loop(_, _)
        Loop(i, u) ==
            IF i > Len(para.children) THEN Return(u)
            ELSE OnReturn(ParagraphChild(para.children[i], u),
                          LAMBDA u2 : Loop(i + 1, u2))
    IN OnReturn(With(t \o Str(para.text), LAMBDA u : Loop(1, u)),
                LAMBDA u : With(CollapseNewlines(u),
                                LAMBDA v : Return(StripLeadingSpace(v))))

(***************************************************************************)
(* _process_section, api.py:191-217                                        *)
(***************************************************************************)
RECURSIVE _process_section(_, _)

\* SectionChild without its last branch: a child of unknown tag is skipped
SectionChild_SkipsUnknown(child, t) ==
    IF child.tag = ns \o "section-title" \/ child.tag = "title"
    THEN Return(t \o Str(child.text) \o <<"\n">>)
    ELSE IF child.tag = ns \o "para" \/ child.tag = "p"
    THEN OnReturn(_process_paragraph(child, t),
                  LAMBDA u : Return(u \o <<"\n">>))
    ELSE IF child.tag = ns \o "section" \/ child.tag = "sec"
    THEN _process_section(child, t)
    ELSE Return(t)

\* one iteration of the loop at api.py:204-215
SectionChild(child, t) ==
    IF child.tag = ns \o "label" \/ child.tag = "label"
    THEN Return(t)
    ELSE IF child.tag = ns \o "section-title" \/ child.tag = "title"
    THEN Return(t \o Str(child.text) \o <<"\n">>)
    ELSE IF child.tag = ns \o "para" \/ child.tag = "p"
    THEN OnReturn(_process_paragraph(child, t),
                  LAMBDA u : Return(u \o <<"\n">>))
    ELSE IF child.tag = ns \o "section" \/ child.tag = "sec"
    THEN _process_section(child, t)
    ELSE Raise("ValueError")

_process_section(section, t) ==
    LET RECURSIVE Loop(_, _)
        Loop(i, u) ==
            IF i > Len(section.children) THEN Return(u)
            ELSE OnReturn(SectionChild(section.children[i], u),
                          LAMBDA u2 : Loop(i + 1, u2))
    IN Loop(1, t)

\* the handler of this name called on el and t
HandlerOf(name, el, t) ==
    IF name = "_process_paragraph" THEN _process_paragraph(el, t)
    ELSE IF name = "_process_section" THEN _process_section(el, t)
    ELSE _process_def_list(el, t)

\* the handler written for an element of this tag
HandlerName(tag) ==
    IF tag = ns \o "section" \/ tag = "sec" THEN "_process_section"
    ELSE IF tag = ns \o "para" \/ tag = "p" THEN "_process_paragraph"
    ELSE "_process_def_list"

(***************************************************************************)
(* process, api.py:220-257                                                 *)
(***************************************************************************)
\* LocateRoot with ieee forgotten in the second test
LocateRoot_NoIeee(tree, a) ==
    IF a = "elsevier" THEN [err |-> "none", el |-> FindDeep(tree, ns \o "sections")]
    ELSE IF a = "springer"
    THEN [err |-> "none", el |-> FindDeep(tree, "body")]
    ELSE [err |-> "ValueError", el |-> NoElement]

\* LocateRoot where any api but elsevier is taken for a body document
LocateRoot_DefaultsToBody(tree, a) ==
    IF a = "elsevier" THEN [err |-> "none", el |-> FindDeep(tree, ns \o "sections")]
    ELSE [err |-> "none", el |-> FindDeep(tree, "body")]

\* api.py:236-241: the root of interest, or ValueError for an unknown api
\* LocateRoot where ieee looks for the root of elsevier
LocateRoot_IeeeAsElsevier(tree, a) ==
    IF a = "elsevier" \/ a = "ieee"
    THEN [err |-> "none", el |-> FindDeep(tree, ns \o "sections")]
    ELSE IF a = "springer" THEN [err |-> "none", el |-> FindDeep(tree, "body")]
    ELSE [err |-> "ValueError", el |-> NoElement]

LocateRoot(tree, a) ==
    IF a = "elsevier" THEN [err |-> "none", el |-> FindDeep(tree, ns \o "sections")]
    ELSE IF a = "springer" \/ a = "ieee"
    THEN [err |-> "none", el |-> FindDeep(tree, "body")]
    ELSE [err |-> "ValueError", el |-> NoElement]

\* Unavailable without the test for a book-part
Unavailable_NoBookPart(r, a) == ~Truthy(r)

\* the condition of api.py:245-246
Unavailable(r, a) ==
    (~Truthy(r)) \/ (a = "springer" /\ FindChild(r, "book-part") # NoElement)

\* api.py:233-247: everything process does before its loop
Prepare(ans, a) ==
    With(_process_xml(ans), LAMBDA cleaned :
    With(fromstring(cleaned), LAMBDA tree :
    IF ~tree.ok THEN [err |-> "ParseError", el |-> NoElement]
    ELSE With(LocateRoot(tree.el, a), LAMBDA r :
         IF r.err # "none" THEN r
         ELSE IF Unavailable(r.el, a) THEN [err |-> "NameError", el |-> NoElement]
         ELSE r)))

\* one iteration of the loop at api.py:249-257: whether the file is
\* opened, and what is written to it unless the handler raises
TopChild(child, t) ==
    IF child.tag = ns \o "section" \/ child.tag = "sec"
    THEN With(_process_section(child, t), LAMBDA r :
         [opened |-> TRUE, err |-> r.err,
          text |-> IF r.err = "none" THEN r.text \o <<"\n">> ELSE <<>>])
    ELSE IF child.tag = ns \o "para" \/ child.tag = "p"
    THEN With(_process_paragraph(child, t), LAMBDA r :
         [opened |-> TRUE, err |-> r.err,
          text |-> IF r.err = "none" THEN r.text \o <<"\n">> ELSE <<>>])
    ELSE [opened |-> FALSE, err |-> "ValueError", text |-> <<>>]

\* process(answer, path, api) from its call to its end: how it ends, what
\* it has written to path, and whether it has opened path
SoloRun(ans, a) ==
    With(Prepare(ans, a), LAMBDA r :
    IF r.err # "none" THEN [result |-> r.err, sink |-> <<>>, opened |-> FALSE]
    ELSE LET RECURSIVE Go(_, _, _)
             Go(i, out, opened) ==
                 IF i > Len(r.el.children)
                 THEN [result |-> "ok", sink |-> out, opened |-> opened]
                 ELSE With(TopChild(r.el.children[i], <<>>), LAMBDA c :
                      IF c.err # "none"
                      THEN [result |-> c.err, sink |-> out,
                            opened |-> opened \/ c.opened]
                      ELSE Go(i + 1, Append(out, c.text), TRUE))
         IN Go(1, <<>>, FALSE))

(***************************************************************************)
(* get_springer_abstract, api.py:280-306                                   *)
(***************************************************************************)
\* AbstractChild where the title is read like the title of a section
AbstractChild_ReadsTitle(child, t) ==
    IF child.tag = "title" THEN Return(t \o Str(child.text) \o <<"\n">>)
    ELSE IF child.tag = "sec" THEN _process_section(child, t)
    ELSE IF child.tag = "p" THEN _process_paragraph(child, t)
    ELSE Raise("ValueError")

\* one iteration of the loop at api.py:295-304
AbstractChild(child, t) ==
    IF child.tag = "title" THEN Return(t)
    ELSE IF child.tag = "sec" THEN _process_section(child, t)
    ELSE IF child.tag = "p" THEN _process_paragraph(child, t)
    ELSE Raise("ValueError")

get_springer_abstract(ans) ==
    With(_process_xml(ans), LAMBDA cleaned :
    With(fromstring(cleaned), LAMBDA tree :
    IF ~tree.ok THEN Raise("ParseError")
    ELSE With(FindDeep(tree.el, "abstract"), LAMBDA desc :
         LET RECURSIVE Loop(_, _)
             Loop(i, u) ==
                 IF i > Len(desc.children) THEN Return(u)
                 ELSE OnReturn(AbstractChild(desc.children[i], u),
                               LAMBDA u2 : Loop(i + 1, u2))
         IN IF Truthy(desc) THEN Loop(1, <<>>) ELSE Return(<<>>))))

(***************************************************************************)
(* get_elsevier_abstract, api.py:260-277, and get_ieee_abstract,           *)
(* api.py:309-322.  What they return is a str or None: none tells which.   *)
(***************************************************************************)
ReturnStr(t) == [err |-> "none", none |-> FALSE, text |-> t]
ReturnNone == [err |-> "none", none |-> TRUE, text |-> <<>>]
RaiseFrom(e) == [err |-> e, none |-> FALSE, text |-> <<>>]

\* re.sub("\n +", "", desc), api.py:275: a newline and the spaces after it
\* go, where there is at least one space
RemoveIndents(s) ==
    LET RECURSIVE Go(_)
        Go(i) ==
            IF i > Len(s) THEN <<>>
            ELSE IF IsNewline(s[i]) /\ i < Len(s) /\ IsSpace(s[i + 1])
            THEN With({j \in (i + 1)..Len(s) : ~IsSpace(s[j])}, LAMBDA stops :
                 IF stops = {} THEN <<>>
                 ELSE Go(CHOOSE j \in stops : \A j2 \in stops : j <= j2))
            ELSE <<s[i]>> \o Go(i + 1)
    IN Go(1)

get_elsevier_abstract(ans) ==
    With(_process_xml(ans), LAMBDA cleaned :
    With(fromstring(cleaned), LAMBDA tree :
    IF ~tree.ok THEN RaiseFrom("ParseError")
    ELSE With(FindDeep(tree.el, dc \o "description"), LAMBDA desc :
         IF desc = NoElement THEN ReturnNone
         ELSE IF desc.text = None THEN RaiseFrom("TypeError")
         ELSE ReturnStr(RemoveIndents(desc.text)))))

get_ieee_abstract(ans) ==
    With(_process_xml(ans), LAMBDA cleaned :
    With(fromstring(cleaned), LAMBDA tree :
    IF ~tree.ok THEN RaiseFrom("ParseError")
    ELSE With(FindPath2(tree.el, "article", "abstract"), LAMBDA desc :
         IF desc = NoElement THEN ReturnStr(<<>>)
         ELSE IF desc.text = None THEN ReturnNone
         ELSE ReturnStr(desc.text))))

(***************************************************************************)
(* The state machine: one call of one entry point                          *)
(***************************************************************************)
\* concurrent calls of process: the invocations, each with its own path
NumInvocations == 2
Invocations == 1..NumInvocations

\* the locals of an invocation that has not started
Idle ==
    [pc |-> "idle", answer |-> <<>>, api |-> "", root |-> NoElement, k |-> 0,
     text |-> <<>>, result |-> "none"]

\* no call of an entry point has been made
NoCall ==
    /\ pc = "idle"
    /\ call = "none"
    /\ answer = <<>>
    /\ api = ""
    /\ arg = NoElement
    /\ acc = <<>>
    /\ patched = FALSE
    /\ root = NoElement
    /\ k = 0
    /\ text = <<>>
    /\ opens = 0
    /\ sink = <<>>
    /\ result = "none"
    /\ ret = <<>>
    /\ retNone = FALSE
    /\ invs = [i \in Invocations |-> Idle]
    /\ files = [i \in Invocations |-> <<>>]

\* corpus.search: the iteration for reference p that ends before any
\* query, skipped tells why; p = 0 and "no" before the first iteration
Skipped(p, why) ==
    [ref |-> p, skipped |-> why, sent |-> {}, api |-> "None", abs |-> "None",
     answer |-> <<>>, result |-> "none"]

\* corpus.search has not been called
NoSearch ==
    [threshold |-> 0, run |-> 0, pos |-> 0, counter |-> 0, status |-> "idle",
     last |-> Skipped(0, "no")]

Init ==
    /\ NoCall /\ raw = <<>> /\ clean = <<>>
    /\ corpus = <<>> /\ disk = <<>> /\ srch = NoSearch

\* process(answer, path, api) up to its loop, api.py:233-247
CallProcess ==
    /\ pc = "idle" /\ ~patched
    /\ \E ans \in Answers, a \in ApiNames : \E r \in {Prepare(ans, a)} :
         /\ call' = "process"
         /\ answer' = ans
         /\ api' = a
         /\ root' = r.el
         /\ IF r.err = "none"
            THEN pc' = "walk" /\ k' = 1 /\ result' = "none"
            ELSE pc' = "done" /\ k' = 0 /\ result' = r.err
    /\ UNCHANGED <<arg, acc, patched, text, opens, sink, ret, retNone, par, ext>>

\* ProcessChild where the text of a child becomes the text given to the next
ProcessChild_Accumulates ==
    /\ pc = "walk" /\ k <= Len(root.children)
    /\ \E r \in {TopChild(root.children[k], text)} :
       /\ opens' = IF r.opened THEN opens + 1 ELSE opens
       /\ IF r.err = "none"
          THEN /\ sink' = Append(sink, r.text)
               /\ text' = r.text
               /\ k' = k + 1
               /\ UNCHANGED <<pc, result>>
          ELSE /\ pc' = "done"
               /\ result' = r.err
               /\ UNCHANGED <<sink, k, text>>
    /\ UNCHANGED <<call, answer, api, arg, acc, patched, root, ret, retNone, par, ext>>

\* ProcessChild where a failure takes back what the call has written
ProcessChild_RollsBack ==
    /\ pc = "walk" /\ k <= Len(root.children)
    /\ \E r \in {TopChild(root.children[k], text)} :
       /\ opens' = IF r.opened THEN opens + 1 ELSE opens
       /\ IF r.err = "none"
          THEN /\ sink' = Append(sink, r.text)
               /\ k' = k + 1
               /\ UNCHANGED <<pc, result>>
          ELSE /\ pc' = "done"
               /\ result' = r.err
               /\ sink' = <<>>
               /\ UNCHANGED k
    /\ UNCHANGED <<call, answer, api, arg, acc, patched, root, text, ret,
                   retNone, par, ext>>

\* one iteration of the loop of process, api.py:249-257
ProcessChild ==
    /\ pc = "walk" /\ k <= Len(root.children)
    /\ \E r \in {TopChild(root.children[k], text)} :
       /\ opens' = IF r.opened THEN opens + 1 ELSE opens
       /\ IF r.err = "none"
          THEN /\ sink' = Append(sink, r.text)
               /\ k' = k + 1
               /\ UNCHANGED <<pc, result>>
          ELSE /\ pc' = "done"
               /\ result' = r.err
               /\ UNCHANGED <<sink, k>>
    /\ UNCHANGED <<call, answer, api, arg, acc, patched, root, text, ret,
                   retNone, par, ext>>

\* the loop of process is over: it returns None
ProcessReturn ==
    /\ pc = "walk" /\ k > Len(root.children)
    /\ pc' = "done"
    /\ result' = "ok"
    /\ retNone' = TRUE
    /\ UNCHANGED <<call, answer, api, arg, acc, patched, root, k, text, opens,
                   sink, ret, par, ext>>

\* monkeypatch.setattr(api, "_process_def_list", mockreturn),
\* Tests/test_api.py:60, 76
MonkeyPatch ==
    /\ pc = "idle" /\ ~patched
    /\ patched' = TRUE
    /\ UNCHANGED <<pc, call, answer, api, arg, acc, root, k, text, opens, sink,
                   result, ret, retNone, par, ext>>

\* a handler called on an element, as the tests call it
Handled(name, el, t, r) ==
    /\ pc' = "done"
    /\ call' = name
    /\ arg' = el
    /\ acc' = t
    /\ result' = IF r.err = "none" THEN "ok" ELSE r.err
    /\ ret' = r.text
    /\ UNCHANGED <<answer, api, patched, root, k, text, opens, sink, retNone, par, ext>>

CallParagraph ==
    /\ pc = "idle"
    /\ \E sp \in Spellings : \E node \in Paragraphs(sp) : \E t \in Accs :
         \E el \in {Parse(node)} : \E r \in {_process_paragraph(el, t)} :
             Handled("_process_paragraph", el, t, r)

CallSection ==
    /\ pc = "idle" /\ ~patched
    /\ \E sp \in Spellings : \E node \in Sections(sp) : \E t \in Accs :
         \E el \in {Parse(node)} : \E r \in {_process_section(el, t)} :
             Handled("_process_section", el, t, r)

CallDefList ==
    /\ pc = "idle" /\ ~patched
    /\ \E sp \in Spellings : \E node \in DefLists(sp) : \E t \in Accs :
         \E el \in {Parse(node)} : \E r \in {_process_def_list(el, t)} :
             Handled("_process_def_list", el, t, r)

\* the handler of an element called on that element, its texts numbered
CallNumbered ==
    /\ pc = "idle" /\ ~patched
    /\ \E sp \in Spellings : \E node \in NumberedInputs(sp) :
         \E el \in {Parse(node)} : \E name \in {HandlerName(el.tag)} :
             \E r \in {HandlerOf(name, el, <<>>)} : Handled(name, el, <<>>, r)

CallSpringerAbstract ==
    /\ pc = "idle" /\ ~patched
    /\ \E ans \in AbstractAnswers : \E r \in {get_springer_abstract(ans)} :
         /\ pc' = "done"
         /\ call' = "get_springer_abstract"
         /\ answer' = ans
         /\ result' = IF r.err = "none" THEN "ok" ELSE r.err
         /\ ret' = r.text
         /\ UNCHANGED <<api, arg, acc, patched, root, k, text, opens, sink,
                        retNone, par, ext>>

\* an abstract extractor that may return None has been called on ans
Extracted(name, ans, r) ==
    /\ pc' = "done"
    /\ call' = name
    /\ answer' = ans
    /\ result' = IF r.err = "none" THEN "ok" ELSE r.err
    /\ ret' = r.text
    /\ retNone' = r.none
    /\ UNCHANGED <<api, arg, acc, patched, root, k, text, opens, sink, par, ext>>

CallElsevierAbstract ==
    /\ pc = "idle" /\ ~patched
    /\ \E ans \in ElsevierAbstractAnswers :
         \E r \in {get_elsevier_abstract(ans)} :
             Extracted("get_elsevier_abstract", ans, r)

CallIeeeAbstract ==
    /\ pc = "idle" /\ ~patched
    /\ \E ans \in IeeeAbstractAnswers : \E r \in {get_ieee_abstract(ans)} :
         Extracted("get_ieee_abstract", ans, r)

Next ==
    \/ CallProcess
    \/ ProcessChild
    \/ ProcessReturn
    \/ MonkeyPatch
    \/ CallParagraph
    \/ CallSection
    \/ CallDefList
    \/ CallNumbered
    \/ CallSpringerAbstract
    \/ CallElsevierAbstract
    \/ CallIeeeAbstract

Spec == Init /\ [][Next]_vars

(***************************************************************************)
(* Concurrent calls of process, each on its own answer and its own path.   *)
(* An invocation takes one step at a time: the part before the loop, then  *)
(* one iteration of the loop per step; the steps of different invocations  *)
(* interleave in any order.  The files are the only state the invocations  *)
(* could share: process reads and writes no module-level name.             *)
(***************************************************************************)
ParAnswers ==
    {Serialize(BodyDoc(<<Sec("", <<Title(""), Para("", Lorem, <<>>)>>),
                         Para("", Lorem, <<List("")>>)>>)),
     Serialize(BodyDoc(<<Para("", Lorem, <<>>), Wrong>>)),
     Serialize(BodyDoc(EmptyKids(""))),
     Serialize(SectionsDoc(<<Para("ce", Lorem, <<>>), Sec("ce", <<Title("ce")>>)>>)),
     Serialize(Test(FALSE, <<>>))}
ParApis == {"springer", "elsevier"}

\* PathOf where every invocation is given the path of the first
PathOf_Shared(i) == 1

\* the path argument of invocation i: the callers give different paths
PathOf(i) == i

\* api.py:233-247 in invocation i
ParStart ==
    /\ \E i \in Invocations :
         /\ invs[i].pc = "idle"
         /\ \E ans \in ParAnswers, a \in ParApis : \E r \in {Prepare(ans, a)} :
              invs' = [invs EXCEPT ![i] =
                          [pc |-> IF r.err = "none" THEN "walk" ELSE "done",
                           answer |-> ans, api |-> a, root |-> r.el,
                           k |-> IF r.err = "none" THEN 1 ELSE 0,
                           text |-> <<>>,
                           result |-> r.err]]
    /\ UNCHANGED <<one, files, ext>>

\* one iteration of the loop at api.py:249-257 in invocation i
ParChild ==
    /\ \E i \in Invocations :
         /\ invs[i].pc = "walk" /\ invs[i].k <= Len(invs[i].root.children)
         /\ \E r \in {TopChild(invs[i].root.children[invs[i].k], invs[i].text)} :
              IF r.err = "none"
              THEN /\ files' = [files EXCEPT ![PathOf(i)] = Append(@, r.text)]
                   /\ invs' = [invs EXCEPT ![i].k = @ + 1]
              ELSE /\ invs' = [invs EXCEPT ![i].pc = "done", ![i].result = r.err]
                   /\ UNCHANGED files
    /\ UNCHANGED <<one, ext>>

\* the loop of invocation i is over
ParReturn ==
    /\ \E i \in Invocations :
         /\ invs[i].pc = "walk" /\ invs[i].k > Len(invs[i].root.children)
         /\ invs' = [invs EXCEPT ![i].pc = "done", ![i].result = "ok"]
    /\ UNCHANGED <<one, files, ext>>

NextPar ==
    \/ ParStart
    \/ ParChild
    \/ ParReturn

SpecPar == Init /\ [][NextPar]_vars

(***************************************************************************)
(* The pre-filter alone.  It is given a string over one tag (body, or one  *)
(* of the elements replaced by a token), a word and a space, and then      *)
(* what it returned.                                                       *)
(***************************************************************************)
MaxFilterLen == 5

FilterTags ==
    {<<"", "body">>} \cup {<<Placeholders[n].p, Placeholders[n].v>> :
                              n \in 1..Len(Placeholders)}

FilterInputs ==
    UNION {SeqsUpTo({Open(t[1], t[2], ""), Close(t[1], t[2]), Chars("x"),
                     Chars(" ")}, MaxFilterLen) : t \in FilterTags}

InitFilter ==
    /\ NoCall /\ raw \in FilterInputs /\ clean = <<>>
    /\ corpus = <<>> /\ disk = <<>> /\ srch = NoSearch

\* _process_xml(raw)
FilterOnce ==
    /\ clean = <<>>
    /\ clean' = <<_process_xml(raw)>>
    /\ UNCHANGED <<one, par, raw, corpus, disk, srch>>

\* _process_xml(_process_xml(raw))
FilterAgain ==
    /\ Len(clean) = 1
    /\ clean' = Append(clean, _process_xml(clean[1]))
    /\ UNCHANGED <<one, par, raw, corpus, disk, srch>>

NextFilter ==
    \/ FilterOnce
    \/ FilterAgain

SpecFilter == InitFilter /\ [][NextFilter]_vars

(***************************************************************************)
(* corpus.py: _unknown_publisher, corpus.py:188-215, and search,           *)
(* corpus.py:218-298.  The publishers are the network: a query returns one *)
(* of a few answers or fails.  A reference v is [pub, doi, abstract,       *)
(* full_text]: pub the publisher names found in its publisher and source   *)
(* (corpus.py:240-242), doi whether it has a DOI, abstract a str or None,  *)
(* full_text whether the key is set.                                       *)
(***************************************************************************)
Got(ans) == [err |-> "none", answer |-> ans]
Failed(e) == [err |-> e, answer |-> <<>>]
\* the query named q has been sent and has ended as r
Sent(q, r) == [query |-> q, err |-> r.err, answer |-> r.answer]

\* query.elsevier_get(doi, key): nothing, a full text, an abstract, an
\* empty abstract, a full text with an unknown element, a cut answer
elsevier_get ==
    {Got(<<>>),
     Got(Serialize(SectionsDoc(<<Para("ce", Lorem, <<>>)>>))),
     Got(Serialize(TestDc(<<Description(Lorem, <<>>)>>))),
     Got(Serialize(TestDc(<<Description(None, <<>>)>>))),
     Got(Serialize(SectionsDoc(<<Para("ce", Lorem, <<>>), Wrong>>))),
     Got(<<Open("", "test", "")>>),
     Failed("Exception"), Failed("ValueError")}

\* query.springer_get(doi, key): a full text, an abstract, a full text
\* with an unknown element, neither body nor abstract
springer_get ==
    {Got(Serialize(BodyDoc(<<Para("", Lorem, <<>>)>>))),
     Got(TestSpringerAbstract),
     Got(Serialize(BodyDoc(<<Para("", Lorem, <<>>), Wrong>>))),
     Got(Serialize(Test(FALSE, <<>>))),
     Failed("Exception"), Failed("ValueError")}

\* query.ieee_get_meta(doi, key) and query.ieee_get_oa(meta, key)
ieee_get_meta ==
    {Got(Serialize(Test(FALSE, <<Article(<<Node("", "abstract", Lorem, <<>>)>>)>>))),
     Failed("Exception")}
ieee_get_oa ==
    {Got(Serialize(BodyDoc(<<Para("", Lorem, <<>>)>>))), Failed("Exception")}

\* _unknown_publisher where a failure of the Elsevier query leaves the
\* function
_unknown_publisher_Propagates(e, s) ==
    IF e.err # "none"
    THEN [err |-> e.err, answer |-> <<>>, api |-> "None", abs |-> "None",
          sent |-> {Sent("elsevier_get", e)}]
    ELSE IF e.answer # <<>>
    THEN [err |-> "none", answer |-> e.answer, api |-> "elsevier",
          abs |-> "get_elsevier_abstract", sent |-> {Sent("elsevier_get", e)}]
    ELSE With([err |-> s.err, answer |-> <<>>, api |-> "None", abs |-> "None",
               sent |-> {Sent("elsevier_get", e), Sent("springer_get", s)}],
              LAMBDA none :
         IF s.err # "none" THEN none
         ELSE With(fromstring(s.answer), LAMBDA tree :
              IF ~tree.ok THEN [none EXCEPT !.err = "ParseError"]
              ELSE IF FindDeep(tree.el, "body") # NoElement
                      \/ FindDeep(tree.el, "abstract") # NoElement
              THEN [none EXCEPT !.answer = s.answer, !.api = "springer",
                                !.abs = "get_springer_abstract"]
              ELSE none))

\* _unknown_publisher(doi, keys) when its queries end as e and s: what it
\* returns or raises, and the queries it has sent
_unknown_publisher(e, s) ==
    IF e.err = "none" /\ e.answer # <<>>
    THEN [err |-> "none", answer |-> e.answer, api |-> "elsevier",
          abs |-> "get_elsevier_abstract", sent |-> {Sent("elsevier_get", e)}]
    ELSE With([err |-> s.err, answer |-> <<>>, api |-> "None", abs |-> "None",
               sent |-> {Sent("elsevier_get", e), Sent("springer_get", s)}],
              LAMBDA none :
         IF s.err # "none" THEN none
         ELSE With(fromstring(s.answer), LAMBDA tree :
              IF ~tree.ok THEN [none EXCEPT !.err = "ParseError"]
              ELSE IF FindDeep(tree.el, "body") # NoElement
                      \/ FindDeep(tree.el, "abstract") # NoElement
              THEN [none EXCEPT !.answer = s.answer, !.api = "springer",
                                !.abs = "get_springer_abstract"]
              ELSE none))

\* corpus.py:254-277: the ways the try block can end for reference v
Fetches(v, counter, threshold) ==
    IF "elsevier" \in v.pub
    THEN {[err |-> e.err, answer |-> e.answer, api |-> "elsevier",
           abs |-> "get_elsevier_abstract", sent |-> {Sent("elsevier_get", e)},
           counter |-> counter] : e \in elsevier_get}
    ELSE IF "springer" \in v.pub
    THEN {[err |-> s.err, answer |-> s.answer, api |-> "springer",
           abs |-> "get_springer_abstract", sent |-> {Sent("springer_get", s)},
           counter |-> counter] : s \in springer_get}
    ELSE IF "ieee" \in v.pub /\ counter >= threshold
    THEN {[err |-> m.err,
           answer |-> IF m.err # "none" THEN <<>>
                      ELSE IF o.err = "none" THEN o.answer ELSE m.answer,
           api |-> "ieee", abs |-> "get_ieee_abstract",
           sent |-> IF m.err # "none" THEN {Sent("ieee_get_meta", m)}
                    ELSE {Sent("ieee_get_meta", m), Sent("ieee_get_oa", o)},
           counter |-> counter + 1] : m \in ieee_get_meta, o \in ieee_get_oa}
    ELSE {[err |-> u.err, answer |-> u.answer, api |-> u.api, abs |-> u.abs,
           sent |-> u.sent, counter |-> counter] :
             u \in {_unknown_publisher(e, s) : e \in elsevier_get,
                                               s \in springer_get}}

\* abs_function(answer), corpus.py:295
Abstract(abs, ans) ==
    IF abs = "get_elsevier_abstract" THEN get_elsevier_abstract(ans)
    ELSE IF abs = "get_ieee_abstract" THEN get_ieee_abstract(ans)
    ELSE With(get_springer_abstract(ans), LAMBDA r :
         [err |-> r.err, none |-> FALSE, text |-> r.text])

\* Iteration where the abstract found replaces the one the reference has
Iteration_Overwrites(p, v, file, threshold, f) ==
    LET last == [Skipped(p, "no") EXCEPT !.sent = f.sent, !.api = f.api,
                                          !.abs = f.abs, !.answer = f.answer]
        end(status, v2, file2, l) ==
            [status |-> status, ref |-> v2, file |-> file2,
             counter |-> f.counter, last |-> l]
    IN
    IF f.err # "none"                                   \* corpus.py:275-277
    THEN end(f.err, v, file, last)
    ELSE IF f.answer = <<>>                             \* corpus.py:279-280
    THEN end("running", v, file, [last EXCEPT !.skipped = "no answer"])
    ELSE IF f.api = "ieee" /\ f.counter < threshold     \* corpus.py:284-285
    THEN end("running", v, file, [last EXCEPT !.skipped = "threshold"])
    ELSE With(SoloRun(f.answer, f.api), LAMBDA run :    \* corpus.py:291
         With([exists |-> file.exists \/ run.opened,
               text |-> file.text \o run.sink], LAMBDA file2 :
         With([last EXCEPT !.result = run.result], LAMBDA l :
         IF run.result = "ok"                           \* corpus.py:292
         THEN end("running", [v EXCEPT !.full_text = TRUE], file2, l)
         ELSE IF run.result = "NameError"               \* corpus.py:293-295
         THEN With(Abstract(f.abs, f.answer), LAMBDA a :
              IF a.err # "none" THEN end("ValueError", v, file2, l)
              ELSE end("running",
                       [v EXCEPT !.abstract = [none |-> a.none,
                                               text |-> a.text]],
                       file2, l))
         ELSE end("ValueError", v, file2, l))))         \* corpus.py:296-298

\* One iteration of the loop at corpus.py:238-298 for reference v with its
\* file, the try block ending as f.  status is "running" when the loop
\* goes on, else the exception that leaves search.
Iteration(p, v, file, threshold, f) ==
    LET last == [Skipped(p, "no") EXCEPT !.sent = f.sent, !.api = f.api,
                                          !.abs = f.abs, !.answer = f.answer]
        end(status, v2, file2, l) ==
            [status |-> status, ref |-> v2, file |-> file2,
             counter |-> f.counter, last |-> l]
    IN
    IF f.err # "none"                                   \* corpus.py:275-277
    THEN end(f.err, v, file, last)
    ELSE IF f.answer = <<>>                             \* corpus.py:279-280
    THEN end("running", v, file, [last EXCEPT !.skipped = "no answer"])
    ELSE IF f.api = "ieee" /\ f.counter < threshold     \* corpus.py:284-285
    THEN end("running", v, file, [last EXCEPT !.skipped = "threshold"])
    ELSE With(SoloRun(f.answer, f.api), LAMBDA run :    \* corpus.py:291
         With([exists |-> file.exists \/ run.opened,
               text |-> file.text \o run.sink], LAMBDA file2 :
         With([last EXCEPT !.result = run.result], LAMBDA l :
         IF run.result = "ok"                           \* corpus.py:292
         THEN end("running", [v EXCEPT !.full_text = TRUE], file2, l)
         ELSE IF run.result = "NameError"               \* corpus.py:293-295
         THEN IF ~v.abstract.none /\ v.abstract.text # <<>>
              THEN end("running", v, file2, l)
              ELSE With(Abstract(f.abs, f.answer), LAMBDA a :
                   IF a.err # "none" THEN end("ValueError", v, file2, l)
                   ELSE end("running",
                            [v EXCEPT !.abstract = [none |-> a.none,
                                                    text |-> a.text]],
                            file2, l))
         ELSE end("ValueError", v, file2, l))))         \* corpus.py:296-298

\* the references of a corpus
Ref(pub, doi, abstract) ==
    [pub |-> pub, doi |-> doi, abstract |-> [none |-> FALSE, text |-> abstract],
     full_text |-> FALSE]
RefKinds ==
    {Ref({"elsevier"}, TRUE, <<>>), Ref({"elsevier"}, TRUE, <<"Abstract">>),
     Ref({"springer"}, TRUE, <<>>), Ref({"ieee"}, TRUE, <<>>),
     Ref({"ieee"}, FALSE, <<>>), Ref({}, TRUE, <<>>)}

MaxRefs == 2        \* references in the corpus
MaxThreshold == 1   \* the threshold argument of search
MaxRuns == 2        \* calls of search on the same directory

\* search(corpus, api_keys_path, dirpath, threshold) is called on an empty
\* directory
InitCorpus ==
    /\ NoCall /\ raw = <<>> /\ clean = <<>>
    /\ corpus \in SeqsUpTo(RefKinds, MaxRefs)
    /\ disk = [p \in 1..Len(corpus) |-> [exists |-> FALSE, text |-> <<>>]]
    /\ \E t \in 0..MaxThreshold :
         srch = [NoSearch EXCEPT !.threshold = t, !.run = 1, !.pos = 1,
                                 !.status = "running"]

\* one iteration of the loop at corpus.py:238-298
SearchStep ==
    /\ srch.status = "running" /\ srch.pos <= Len(corpus)
    /\ LET p == srch.pos IN
       IF disk[p].exists \/ ~corpus[p].doi                 \* corpus.py:247-252
       THEN /\ srch' = [srch EXCEPT !.pos = p + 1,
                                    !.last = Skipped(p, IF disk[p].exists
                                                        THEN "exists"
                                                        ELSE "no doi")]
            /\ UNCHANGED <<corpus, disk>>
       ELSE \E f \in Fetches(corpus[p], srch.counter, srch.threshold) :
            \E it \in {Iteration(p, corpus[p], disk[p], srch.threshold, f)} :
                /\ corpus' = [corpus EXCEPT ![p] = it.ref]
                /\ disk' = [disk EXCEPT ![p] = it.file]
                /\ srch' = [srch EXCEPT
                               !.pos = IF it.status = "running" THEN p + 1 ELSE p,
                               !.counter = it.counter,
                               !.status = it.status,
                               !.last = it.last]
    /\ UNCHANGED <<one, par, raw, clean>>

\* the loop is over: search returns
SearchReturn ==
    /\ srch.status = "running" /\ srch.pos > Len(corpus)
    /\ srch' = [srch EXCEPT !.status = "returned"]
    /\ UNCHANGED <<one, par, raw, clean, corpus, disk>>

NextCorpus ==
    \/ SearchStep
    \/ SearchReturn

SpecCorpus == InitCorpus /\ [][NextCorpus]_vars

\* search is called again on the same corpus and the same directory
SearchAgain ==
    /\ srch.status \notin {"idle", "running"} /\ srch.run < MaxRuns
    /\ srch' = [srch EXCEPT !.run = @ + 1, !.pos = 1, !.counter = 0,
                            !.status = "running", !.last = Skipped(0, "no")]
    /\ UNCHANGED <<one, par, raw, clean, corpus, disk>>

NextRerun ==
    \/ SearchStep
    \/ SearchReturn
    \/ SearchAgain

SpecRerun == InitCorpus /\ [][NextRerun]_vars

(***************************************************************************)
(* Vocabulary of the properties                                            *)
(***************************************************************************)
Range(s) == {s[i] : i \in 1..Len(s)}

LabelTags == {ns \o "label", "label"}
TitleTags == {ns \o "section-title", "title"}
ParaTags == {ns \o "para", "p"}
SectionTags == {ns \o "section", "sec"}
ListTags == {ns \o "list", "list"}
DefListTags == {ns \o "def-list", "def-list"}

\* the tags each context dispatches on: the table of the specification,
\* where a label belongs to the paragraph, the section and the def-list
DispatchTable(ctx) ==
    IF ctx = "root" THEN SectionTags \cup ParaTags
    ELSE IF ctx = "section"
    THEN LabelTags \cup TitleTags \cup ParaTags \cup SectionTags
    ELSE IF ctx = "paragraph"
    THEN LabelTags \cup ListTags \cup DefListTags \cup TitleTags \cup ParaTags
    ELSE IF ctx = "def-list"
    THEN LabelTags \cup {ns \o "def-term", ns \o "def-description", "def-item"}
    ELSE {"title", "sec", "p"}     \* the abstract of Springer

\* a def-item that lacks its term or its definition
BrokenDefItem(el) ==
    /\ el.tag = "def-item"
    /\ FindChild(el, "term") = NoElement \/ FindPath2(el, "def", "p") = NoElement

\* What the walk of el in context ctx meets first, going through the
\* children in document order and into sections, paragraphs and def-lists:
\* "unknown", a child whose tag is not in the table of its context;
\* "broken", a def-item without its term or definition; "none", neither.
\* The children of a list, of a title and of a label are not walked, nor
\* are those of a def-list whose handler is replaced.
RECURSIVE Reached(_, _)
ReachedChild(ctx, c) ==
    IF c.tag \notin DispatchTable(ctx) THEN "unknown"
    ELSE IF c.tag \in LabelTags THEN "none"
    ELSE IF c.tag \in SectionTags THEN Reached("section", c)
    ELSE IF c.tag \in ParaTags THEN Reached("paragraph", c)
    ELSE IF c.tag \in DefListTags
    THEN IF patched THEN "none" ELSE Reached("def-list", c)
    ELSE IF BrokenDefItem(c) THEN "broken"
    ELSE "none"

Reached(ctx, el) ==
    LET RECURSIVE Go(_)
        Go(i) == IF i > Len(el.children) THEN "none"
                 ELSE With(ReachedChild(ctx, el.children[i]), LAMBDA e :
                      IF e # "none" THEN e ELSE Go(i + 1))
    IN Go(1)

Done(name) == pc = "done" /\ call = name

\* the answer of the call as process sees it after the pre-filter
Tree == fromstring(_process_xml(answer))

\* the context and the element of the walk the finished call has made
WalkCtx ==
    IF call = "process" THEN "root"
    ELSE IF call = "_process_section" THEN "section"
    ELSE IF call = "_process_paragraph" THEN "paragraph"
    ELSE IF call = "_process_def_list" THEN "def-list"
    ELSE "abstract"
WalkEl ==
    IF call = "process" THEN root
    ELSE IF call = "get_springer_abstract" THEN FindDeep(Tree.el, "abstract")
    ELSE arg
Walked ==
    /\ pc = "done" /\ call # "none"
    /\ call = "process" => root # NoElement

\* what the handler of context ctx does with one child
ChildHandler(ctx, child, t) ==
    IF ctx = "root"
    THEN With(TopChild(child, t), LAMBDA r : [err |-> r.err, text |-> r.text])
    ELSE IF ctx = "section" THEN SectionChild(child, t)
    ELSE IF ctx = "paragraph" THEN ParagraphChild(child, t)
    ELSE IF ctx = "def-list" THEN DefListChild(child, t)
    ELSE AbstractChild(child, t)

\* an element of this tag is ignored entirely in context ctx: given a text
\* and a child of unknown tag, it adds nothing and nothing fails
Ignored(ctx, tag) ==
    ChildHandler(ctx, Element(tag, <<"X">>, <<Element("wrong", None, <<>>, None)>>, None),
                 <<>>) = Return(<<>>)

\* a call that reaches a child of unknown tag fails with ValueError, and a
\* call that completes has met none
UnknownTagRaises ==
    Walked => \E e \in {Reached(WalkCtx, WalkEl)} :
                 /\ e = "unknown" => result = "ValueError"
                 /\ result = "ok" => e = "none"

(***************************************************************************)
(* C1: process either completes or ends in ParseError, NameError or        *)
(* ValueError; no other failure arises from the content of the document.   *)
(***************************************************************************)
C1_TypedFailuresOnly ==
    Done("process") => result \in {"ok", "ParseError", "NameError", "ValueError"}

(***************************************************************************)
(* C2 as stated: an element reached as a direct child of a root, section,  *)
(* paragraph, def-list or Springer abstract whose tag is not in the table  *)
(* of its context makes the call fail with ValueError, it is never         *)
(* skipped, and label tags are the only tags that are ignored.             *)
(***************************************************************************)
C2_OnlyLabelsIgnored ==
    /\ UnknownTagRaises
    /\ Walked =>
        \A i \in 1..Len(WalkEl.children) :
            Ignored(WalkCtx, WalkEl.children[i].tag)
                => WalkEl.children[i].tag \in LabelTags

(***************************************************************************)
(* C2 amended: as above, but the tags that are ignored are the label tags  *)
(* in a section or a paragraph and the title child of a Springer abstract. *)
(***************************************************************************)
C2_UnknownTagRaises ==
    /\ UnknownTagRaises
    /\ Walked =>
        \A i \in 1..Len(WalkEl.children) :
            Ignored(WalkCtx, WalkEl.children[i].tag)
                => \/ WalkEl.children[i].tag \in LabelTags
                   \/ WalkCtx = "abstract" /\ WalkEl.children[i].tag = "title"

\* process has written a child and has then failed on an unknown tag
C2_Witness ==
    /\ Done("process") /\ root # NoElement /\ sink # <<>>
    /\ Reached("root", root) = "unknown"
    /\ result = "ValueError"

(***************************************************************************)
(* C3: in a paragraph, a section and a def-list, in both spellings, a      *)
(* label child is ignored entirely: the handler does what it does on the   *)
(* same element without its label children, and nothing of the label's     *)
(* text is returned.                                                       *)
(***************************************************************************)
WithoutLabels(el) ==
    [el EXCEPT !.children = SelectSeq(@, LAMBDA c : c.tag \notin LabelTags)]

C3_LabelSuppression ==
    (/\ pc = "done"
     /\ call \in {"_process_paragraph", "_process_section", "_process_def_list"}
     /\ \E i \in 1..Len(arg.children) : arg.children[i].tag \in LabelTags)
    => \E r \in {HandlerOf(call, WithoutLabels(arg), acc)} :
          /\ result = (IF r.err = "none" THEN "ok" ELSE r.err)
          /\ ret = r.text
          /\ "Label" \notin Range(ret)

(***************************************************************************)
(* C4: process with elsevier on ce:sections > ce:section > (ce:section-    *)
(* title Title, ce:label Label, empty ce:para) extracts "Title\n \n" for   *)
(* the section and writes it to the sink, with no trace of Label.  The     *)
(* write is accepted with or without the newline process appends.          *)
(***************************************************************************)
C4_Answer ==
    Serialize(SectionsDoc(<<Sec("ce", <<Title("ce"), Label("ce"),
                                        Para("ce", None, <<>>)>>)>>))

C4_EndToEnd ==
    (Done("process") /\ api = "elsevier" /\ answer = C4_Answer)
    => /\ result = "ok"
       /\ Len(sink) = 1
       /\ sink[1] \in {<<"Title", "\n", " ", "\n">>,
                       <<"Title", "\n", " ", "\n", "\n">>}
       /\ "Label" \notin Range(sink[1])

(***************************************************************************)
(* C5: with the def-list handler contributing " [def-list]", the paragraph *)
(* Lorem ipsum + label + list(List_item1, List_item2) + def-list + title   *)
(* Title + paragraph Lorem ipsum is flattened, own text first and then the *)
(* children in document order, to exactly                                  *)
(* "Lorem ipsum- List_item1 - List_item2 [def-list] Title Lorem ipsum ",   *)
(* in the Elsevier spelling and in the generic one.                        *)
(***************************************************************************)
C5_Expected ==
    <<"Lorem", " ", "ipsum", "-", " ", "List_item1", " ", "-", " ",
      "List_item2", " ", "[def-list]", " ", "Title", " ", "Lorem", " ",
      "ipsum", " ">>

C5_ListFlattening ==
    \A sp \in Spellings :
        (Done("_process_paragraph") /\ patched /\ acc = <<>>
         /\ arg = Parse(TestParagraph(sp)))
        => result = "ok" /\ ret = C5_Expected

C5_Witness ==
    /\ Done("_process_paragraph") /\ patched /\ acc = <<>>
    /\ arg = Parse(TestParagraph("ce"))
    /\ ret = C5_Expected

(***************************************************************************)
(* C6: process raises NameError when the parsed document has no body       *)
(* below its document element (springer or ieee), and when the tag is      *)
(* springer and the located body has a book-part child; it does so         *)
(* whatever other children the body has, and before the file is opened.    *)
(***************************************************************************)
C6_RootLocationFailure ==
    (Done("process") /\ Tree.ok /\ api \in {"springer", "ieee"})
    => \E body \in {FindDeep(Tree.el, "body")} :
          (\/ body = NoElement
           \/ api = "springer"
              /\ \E i \in 1..Len(body.children) : body.children[i].tag = "book-part")
          => result = "NameError" /\ opens = 0 /\ sink = <<>>

\* a springer answer whose body holds an unknown tag and a book-part
C6_Witness ==
    /\ Done("process") /\ api = "springer" /\ Tree.ok
    /\ \E body \in {FindDeep(Tree.el, "body")} :
          /\ \E i \in 1..Len(body.children) : body.children[i].tag = "book-part"
          /\ \E i \in 1..Len(body.children) : body.children[i].tag = "wrong"
    /\ result = "NameError"

(***************************************************************************)
(* C7: ContentUnavailable is decided by the presence of the root alone: a  *)
(* root that is present but has no children does not raise it, the call    *)
(* completes with nothing written.                                         *)
(***************************************************************************)
Located ==
    IF api = "elsevier" THEN FindDeep(Tree.el, ns \o "sections")
    ELSE FindDeep(Tree.el, "body")

C7_PresenceAlone ==
    (Done("process") /\ Tree.ok /\ api \in {"elsevier", "springer", "ieee"})
    => /\ Located = NoElement => result = "NameError"
       /\ (Located # NoElement /\ Located.children = <<>>)
              => result = "ok" /\ sink = <<>>

(***************************************************************************)
(* C8: a root holding only an empty section and an empty paragraph is      *)
(* valid: process on the Elsevier form with elsevier, and on the           *)
(* body/sec/p form with springer and with ieee, raises nothing and         *)
(* returns None.                                                           *)
(***************************************************************************)
C8_Case ==
    /\ call = "process"
    /\ \/ api = "elsevier" /\ answer = Serialize(SectionsDoc(EmptyKids("ce")))
       \/ api \in {"springer", "ieee"} /\ answer = Serialize(BodyDoc(EmptyKids("")))

C8_EmptyIsValid ==
    C8_Case => /\ result \in {"none", "ok"}
               /\ pc = "done" => result = "ok" /\ ret = None

C8_Witness == C8_Case /\ pc = "done" /\ api = "ieee" /\ result = "ok"

(***************************************************************************)
(* C9: process called with a tag outside elsevier, ieee, springer on a     *)
(* well-formed document raises ValueError before the file is opened.       *)
(***************************************************************************)
C9_WrongApi ==
    (call = "process" /\ Tree.ok /\ api \notin {"elsevier", "ieee", "springer"})
    => pc = "done" /\ result = "ValueError" /\ opens = 0 /\ sink = <<>>

C9_Witness ==
    /\ Done("process") /\ api = "wrong" /\ result = "ValueError"
    /\ FindDeep(Tree.el, "body") # NoElement

(***************************************************************************)
(* C10: a successful process call on a root of n children makes exactly n  *)
(* appends, in document order; the k-th is the flattened text of the k-th  *)
(* child, computed from the empty text, followed by a newline.             *)
(***************************************************************************)
\* the flattened text of a child of the root, from the empty accumulator
Flattened(child) ==
    IF child.tag \in SectionTags THEN _process_section(child, <<>>)
    ELSE _process_paragraph(child, <<>>)

C10_OneAppendPerChild ==
    /\ (call = "process" /\ pc = "walk")
           => Len(sink) = k - 1 /\ opens = k - 1
    /\ (Done("process") /\ result = "ok")
           => /\ Len(sink) = Len(root.children)
              /\ opens = Len(root.children)
              /\ \A j \in 1..Len(sink) :
                     sink[j] = Flattened(root.children[j]).text \o <<"\n">>

C10_Witness ==
    /\ Done("process") /\ result = "ok"
    /\ Len(root.children) = 2 /\ Len(sink) = 2 /\ sink[1] # sink[2]

(***************************************************************************)
(* C11: at every point of a process call the sink holds the complete       *)
(* outputs of a prefix of the children of the root; a failure on the k-th  *)
(* child leaves the outputs of children 1..k-1 in the sink and nothing of  *)
(* child k or of a later child; a failure before the walk (ParseError,     *)
(* NameError, wrong api) leaves the sink untouched.                        *)
(***************************************************************************)
C11_PartialOutput ==
    call = "process" =>
        /\ Len(sink) <= Len(root.children)
        /\ \A j \in 1..Len(sink) :
               sink[j] = Flattened(root.children[j]).text \o <<"\n">>
        /\ (pc = "done" /\ result # "ok" /\ k > 0)
               => /\ Len(sink) = k - 1
                  /\ TopChild(root.children[k], <<>>).err = result
        /\ (pc = "done" /\ k = 0)
               => /\ result \in {"ParseError", "NameError", "ValueError"}
                  /\ sink = <<>> /\ opens = 0

\* the first child has been written and the second has failed
C11_Witness ==
    /\ Done("process") /\ result = "ValueError"
    /\ k = 2 /\ Len(sink) = 1 /\ Len(root.children) = 2

(***************************************************************************)
(* C12 as stated: get_elsevier_abstract never raises on a well-formed      *)
(* document; where a Dublin Core description exists it returns its text    *)
(* without the newline-and-indentation sequences, an empty description     *)
(* included, and where none exists it returns an empty or absent result.   *)
(***************************************************************************)
C12_ElsevierAbstractTotal ==
    (Done("get_elsevier_abstract") /\ Tree.ok)
    => /\ result = "ok"
       /\ \E desc \in {FindDeep(Tree.el, dc \o "description")} :
             IF desc = NoElement THEN ret = <<>>
             ELSE ~retNone /\ ret = RemoveIndents(desc.text)

(***************************************************************************)
(* C13 as stated: get_ieee_abstract returns a str for every well-formed    *)
(* document: the text of the element at ./article/abstract where there is  *)
(* one, the empty string where there is none.                              *)
(***************************************************************************)
C13_IeeeAbstractIsStr ==
    (Done("get_ieee_abstract") /\ Tree.ok)
    => /\ result = "ok" /\ ~retNone
       /\ \E desc \in {FindPath2(Tree.el, "article", "abstract")} :
             ret = IF desc = NoElement THEN <<>> ELSE desc.text

(***************************************************************************)
(* C14: get_springer_abstract walks the children of the abstract in order: *)
(* a title adds nothing, a sec is handled as a section and a p as a        *)
(* paragraph, each on the text found so far, and a child of another tag    *)
(* raises ValueError; without an abstract it returns the empty string.     *)
(***************************************************************************)
\* the children kids handled in order as sections and paragraphs, from t
SecsAndParas(kids, t) ==
    LET RECURSIVE Go(_, _)
        Go(i, u) ==
            IF i > Len(kids) THEN u
            ELSE With(IF kids[i].tag = "sec" THEN _process_section(kids[i], u).text
                      ELSE _process_paragraph(kids[i], u).text,
                      LAMBDA u2 : Go(i + 1, u2))
    IN Go(1, t)

IsPrefix(s, t) == Len(s) <= Len(t) /\ s = SubSeq(t, 1, Len(s))

C15_NoCoordination ==
    \A i \in Invocations :
        invs[i].pc # "idle" =>
            \E solo \in {SoloRun(invs[i].answer, invs[i].api)} :
                /\ IsPrefix(files[i], solo.sink)
                /\ invs[i].pc = "done"
                       => files[i] = solo.sink /\ invs[i].result = solo.result

\* two invocations are in their loops, each with one child written and
\* another one to come
C15_Witness ==
    /\ \A i \in {1, 2} : /\ invs[i].pc = "walk" /\ invs[i].k = 2
                          /\ Len(invs[i].root.children) = 2
                          /\ Len(files[i]) = 1
    /\ files[1] # files[2]

(***************************************************************************)
(* C16: the value _process_paragraph returns is the text it has gathered   *)
(* with every run of (spaces, newline, spaces) made one space and then one *)
(* leading space taken off; it never holds a newline, whatever the         *)
(* children of the paragraph and the text it was given.                    *)
(***************************************************************************)
\* the text of the paragraph at api.py:185, before the two substitutions
Gathered(para, t) ==
    LET RECURSIVE Loop(_, _)
        Loop(i, u) ==
            IF i > Len(para.children) THEN u
            ELSE With(ParagraphChild(para.children[i], u).text,
                      LAMBDA u2 : Loop(i + 1, u2))
    IN With(t \o Str(para.text), LAMBDA u : Loop(1, u))

C16_ParagraphCollapsed ==
    (Done("_process_paragraph") /\ result = "ok")
    => /\ "\n" \notin Range(ret)
       /\ \E g \in {Gathered(arg, acc)} :
             \E c \in {CollapseNewlines(g)} :
                /\ ret = (IF c # <<>> /\ c[1] = " " THEN Tail(c) ELSE c)
                /\ Len(ret) <= Len(g)

\* a paragraph with children, given a text that starts with a space and
\* holds newlines
C16_Witness ==
    /\ Done("_process_paragraph") /\ result = "ok"
    /\ acc # <<>> /\ acc[1] = " " /\ "\n" \in Range(acc)
    /\ Len(arg.children) = 2
    /\ ret # <<>> /\ ret[1] = "Title"

(***************************************************************************)
(* C17 as stated: _process_section only appends to the text it is given:   *)
(* a title appends its text and a newline, a paragraph appends its result  *)
(* and a newline, a nested section appends its own result; the text found  *)
(* before a child, newlines included, is an unchanged prefix of the text   *)
(* after that child.                                                       *)
(***************************************************************************)
\* the text of the section after its first n children, from t
SectionAfter(section, t, n) ==
    LET RECURSIVE Loop(_, _)
        Loop(i, u) ==
            IF i > n THEN u
            ELSE With(SectionChild(section.children[i], u).text,
                      LAMBDA u2 : Loop(i + 1, u2))
    IN Loop(1, t)

C17_SectionOnlyAppends ==
    (Done("_process_section") /\ result = "ok")
    => /\ IsPrefix(acc, ret)
       /\ \A i \in 1..Len(arg.children) :
             \E before \in {SectionAfter(arg, acc, i - 1)} :
             \E after \in {SectionAfter(arg, acc, i)} :
                /\ IsPrefix(before, after)
                /\ arg.children[i].tag \in TitleTags
                      => after = before \o Str(arg.children[i].text) \o <<"\n">>
                /\ arg.children[i].tag \in ParaTags
                      => after # before /\ after[Len(after)] = "\n"

(***************************************************************************)
(* C18 as stated: _process_def_list returns the text it is given followed, *)
(* in document order, by one entry per pair: for Elsevier "\n- term: "     *)
(* completed by the text of the def-description that follows, for Springer *)
(* "- term: definition" per def-item, consecutive entries being separate   *)
(* lines; from the empty text a single pair gives "\n- Test: Lorem ipsum"  *)
(* and "- Test: Lorem ipsum".                                              *)
(***************************************************************************)
\* the def-list is made of complete pairs only
ElsevierPairs(dlist) ==
    /\ dlist.children # <<>> /\ Len(dlist.children) % 2 = 0
    /\ \A i \in 1..Len(dlist.children) :
           dlist.children[i].tag =
               ns \o (IF i % 2 = 1 THEN "def-term" ELSE "def-description")
SpringerItems(dlist) ==
    /\ dlist.children # <<>>
    /\ \A i \in 1..Len(dlist.children) :
           dlist.children[i].tag = "def-item" /\ ~BrokenDefItem(dlist.children[i])

\* "- term: definition"
Entry(term, def) == <<"-", " ">> \o Str(term) \o <<":", " ">> \o Str(def)

\* the entries of the def-list, each on a line of its own
ElsevierEntries(dlist) ==
    LET RECURSIVE Go(_)
        Go(i) == IF i > Len(dlist.children) THEN <<>>
                 ELSE <<"\n">> \o Entry(dlist.children[i].text,
                                        dlist.children[i + 1].text) \o Go(i + 2)
    IN Go(1)
SpringerEntries(dlist) ==
    LET RECURSIVE Go(_)
        Go(i) == IF i > Len(dlist.children) THEN <<>>
                 ELSE (IF i > 1 THEN <<"\n">> ELSE <<>>)
                      \o Entry(FindChild(dlist.children[i], "term").text,
                               FindPath2(dlist.children[i], "def", "p").text)
                      \o Go(i + 1)
    IN Go(1)

C18_DefListRendering ==
    Done("_process_def_list") =>
        /\ ElsevierPairs(arg) => result = "ok" /\ ret = acc \o ElsevierEntries(arg)
        /\ SpringerItems(arg) => result = "ok" /\ ret = acc \o SpringerEntries(arg)

(***************************************************************************)
(* C19: for a list child of a paragraph, every paragraph at any depth      *)
(* below the list, those of a sub-list included, gives exactly one item    *)
(* "- text", in document order, the items being joined by single newlines  *)
(* before the collapse; a ce:list collects the ce:para below it and a list *)
(* the p below it.                                                         *)
(***************************************************************************)
\* the elements of this tag below el, at any depth, in document order
RECURSIVE Below(_, _)
Below(el, tag) ==
    LET RECURSIVE Go(_)
        Go(i) == IF i > Len(el.children) THEN <<>>
                 ELSE (IF el.children[i].tag = tag THEN <<el.children[i]>> ELSE <<>>)
                      \o Below(el.children[i], tag) \o Go(i + 1)
    IN Go(1)

\* one line "- text" per element, the lines joined by newlines
ItemLines(items) ==
    LET RECURSIVE Go(_)
        Go(i) == IF i > Len(items) THEN <<>>
                 ELSE <<"-", " ">> \o Str(items[i].text)
                      \o (IF i < Len(items) THEN <<"\n">> ELSE <<>>) \o Go(i + 1)
    IN Go(1)

C19_Expected == <<"a", "-", " ", "b", " ", "-", " ", "c", " ", "-", " ", "d",
                  " ", "-", " ", "f", " ">>

C19_ListItems ==
    (Done("_process_paragraph") /\ result = "ok")
    => /\ \A i \in 1..Len(arg.children) :
             arg.children[i].tag \in ListTags
             => \E items \in {Below(arg.children[i],
                                     IF arg.children[i].tag = "list" THEN "p"
                                     ELSE ns \o "para")} :
                   ParagraphChild(arg.children[i], <<>>)
                       = Return(ItemLines(items) \o <<"\n">>)
       /\ \A sp \in Spellings :
             (acc = <<>> /\ arg = Parse(Para(sp, <<"a">>, <<NestedList(sp)>>)))
             => ret = C19_Expected

\* the paragraph whose list holds a sub-list has been flattened
C19_Witness ==
    /\ Done("_process_paragraph") /\ acc = <<>>
    /\ arg = Parse(Para("", <<"a">>, <<NestedList("")>>))
    /\ ret = C19_Expected

(***************************************************************************)
(* C20 as stated: of two pieces of text that both appear in the extraction *)
(* of a subtree, the one whose source element comes first in document      *)
(* order comes first in the output.  Stated on the documents whose texts   *)
(* are numbered in document order: the numbers that appear in the text     *)
(* returned appear in increasing order.                                    *)
(***************************************************************************)
\* the texts of el and of the elements below it, in document order
TextsOf(el) ==
    LET all == <<el>> \o Descendants(el)
        with == SelectSeq(all, LAMBDA e : e.text # None)
    IN [i \in 1..Len(with) |-> with[i].text]

IsNumbered(el) ==
    \E texts \in {TextsOf(el)} :
        /\ texts # <<>> /\ Len(texts) <= Len(Words)
        /\ \A i \in 1..Len(texts) : texts[i] = <<Words[i]>>

\* the numbers of the words of s, in the order they have in s
Numbers(s) ==
    LET words == SelectSeq(s, LAMBDA a : a \in Range(Words))
    IN [i \in 1..Len(words) |->
           CHOOSE n \in 1..Len(Words) : Words[n] = words[i]]

Increasing(ns_) == \A i \in 1..(Len(ns_) - 1) : ns_[i] < ns_[i + 1]

C20_Case ==
    /\ pc = "done"
    /\ call \in {"_process_paragraph", "_process_section", "_process_def_list"}
    /\ result = "ok" /\ acc = <<>> /\ IsNumbered(arg)

C20_AnyTwoPieces == C20_Case => Increasing(Numbers(ret))

(***************************************************************************)
(* C20 amended: as above, except inside a Springer def-item, which is      *)
(* rendered "- term: definition" whatever the order of its term and its    *)
(* definition in the document.                                             *)
(***************************************************************************)
\* the first index of s at which P holds, Len(s) + 1 if there is none
First(s, P(_)) ==
    LET at == {i \in 1..Len(s) : P(s[i])}
    IN IF at = {} THEN Len(s) + 1 ELSE CHOOSE i \in at : \A j \in at : i <= j

\* a def-item whose first term comes after the first def that holds a p
TermAfterDef(el) ==
    /\ el.tag = "def-item"
    /\ First(el.children, LAMBDA c : c.tag = "term")
           > First(el.children,
                   LAMBDA c : c.tag = "def" /\ FindChild(c, "p") # NoElement)

C20_DocumentOrder ==
    (C20_Case /\ \A d \in Range(Descendants(arg)) : ~TermAfterDef(d))
    => Increasing(Numbers(ret))

\* the numbered paragraph of the tests: own text, list items, title and
\* nested paragraph appear, the label does not
C20_Witness ==
    /\ C20_Case /\ call = "_process_paragraph"
    /\ Numbers(ret) = <<1, 3, 4, 5, 6>>

(***************************************************************************)
(* C21 as stated: the pre-filter applied to text that has been through the *)
(* pre-filter changes nothing: _process_xml(_process_xml(x)) equals        *)
(* _process_xml(x) for every string x.                                     *)
(***************************************************************************)
C21_Idempotent == Len(clean) = 2 => clean[2] = clean[1]

(***************************************************************************)
(* C22 as stated: when the string holds body wrappers around the genuine   *)
(* body, nested or repeated, what the pre-filter returns holds exactly one *)
(* start tag and exactly one end tag of body.                              *)
(***************************************************************************)
Count(toks, tok) == Cardinality({i \in 1..Len(toks) : toks[i] = tok})

\* the depth of open elements after toks[1..i], -1 once an end tag came
\* with nothing open
RECURSIVE Depth(_, _)
Depth(toks, i) ==
    IF i = 0 THEN 0
    ELSE With(Depth(toks, i - 1), LAMBDA d :
         IF d < 0 THEN d
         ELSE IF toks[i].k = "open" THEN d + 1
         ELSE IF toks[i].k = "close" THEN d - 1
         ELSE d)

\* the start and end tags of toks are paired
Balanced(toks) == Depth(toks, Len(toks)) = 0

C22_Case ==
    /\ Len(clean) >= 1 /\ Balanced(raw)
    /\ Count(raw, Open("", "body", "")) >= 2

C22_OneBodyLeft ==
    C22_Case => /\ Count(clean[1], Open("", "body", "")) = 1
                /\ Count(clean[1], Close("", "body")) = 1

(***************************************************************************)
(* C23 as stated: every table, figure, inline figure, formula or algorithm *)
(* element of the string, empty or not, nested in another or not, is       *)
(* replaced by its token; what the pre-filter returns holds no start tag   *)
(* and no end tag of these elements.                                       *)
(***************************************************************************)
FamilyTags == FilterTags \ {<<"", "body">>}

C23_NoFamilyTagLeft ==
    (Len(clean) >= 1 /\ Balanced(raw))
    => \A i \in 1..Len(clean[1]) :
           clean[1][i].k = "text" \/ <<clean[1][i].p, clean[1][i].v>> \notin FamilyTags

(***************************************************************************)
(* C28: what process writes for a root does not depend on the publisher    *)
(* tag.  When process has located a root without a book-part child under   *)
(* one of elsevier, springer, ieee, in an answer that holds one root       *)
(* element, then for each of the three tags the same answer, its root      *)
(* element renamed to the one that tag looks for, ends the same way with   *)
(* the same content written: the two spellings of label, title, paragraph  *)
(* and section are accepted under every tag.                               *)
(***************************************************************************)
Publishers == {"elsevier", "springer", "ieee"}

RootNames == {<<"ce", "sections">>, <<"", "body">>}
RootName(a) == IF a = "elsevier" THEN <<"ce", "sections">> ELSE <<"", "body">>

\* ans with its root element named as publisher tag a expects, and the
\* prefix ce declared on the document element
Respell(ans, a) ==
    [i \in 1..Len(ans) |->
        IF ans[i].k = "text" THEN ans[i]
        ELSE IF <<ans[i].p, ans[i].v>> \in RootNames
        THEN [ans[i] EXCEPT !.p = RootName(a)[1], !.v = RootName(a)[2]]
        ELSE IF i = 1 THEN [ans[i] EXCEPT !.a = XmlnsCe]
        ELSE ans[i]]

C28_Case ==
    /\ pc = "done" /\ call = "process" /\ api \in Publishers
    /\ result \notin {"ParseError", "NameError"}
    /\ FindChild(root, "book-part") = NoElement
    /\ Cardinality({i \in 1..Len(answer) :
                       /\ answer[i].k \in {"open", "empty"}
                       /\ <<answer[i].p, answer[i].v>> \in RootNames}) = 1

C28_PublisherIndependent ==
    C28_Case => \A a \in Publishers : \E run \in {SoloRun(Respell(answer, a), a)} :
                    run.result = result /\ run.sink = sink

\* springer has written the text of a root whose children are spelt the
\* Elsevier way
C28_Witness ==
    /\ C28_Case /\ api = "springer" /\ result = "ok" /\ sink # <<>>
    /\ \E i \in 1..Len(root.children) : root.children[i].tag = ns \o "section"

(***************************************************************************)
(* C29: _process_paragraph reads the text of the paragraph and what its    *)
(* children give.  The text after a child, the elements inside a list      *)
(* other than its descendant paragraphs, and the elements inside a title   *)
(* or inside the paragraph of a list item are not dispatched, raise        *)
(* nothing and add nothing: the call ends as it ends on the paragraph      *)
(* without them, with the same text.                                       *)
(***************************************************************************)
\* el without the text after it and without its children
Bare(el) == [el EXCEPT !.tail = None, !.children = <<>>]

\* para without the text after its children, without what its titles hold
\* and with each list holding its descendant paragraphs alone
RECURSIVE Silent(_)
Silent(para) ==
    LET Child(c) ==
            IF c.tag \in {ns \o "list", "list"}
            THEN With(FindAllDeep(c, IF c.tag = "list" THEN "p" ELSE ns \o "para"),
                      LAMBDA items :
                 [c EXCEPT !.tail = None, !.text = None,
                           !.children = [i \in 1..Len(items) |-> Bare(items[i])]])
            ELSE IF c.tag \in TitleTags THEN Bare(c)
            ELSE IF c.tag \in ParaTags THEN [Silent(c) EXCEPT !.tail = None]
            ELSE [c EXCEPT !.tail = None]
    IN [para EXCEPT !.children = [i \in 1..Len(para.children) |->
                                     Child(para.children[i])]]

C29_Case == pc = "done" /\ call = "_process_paragraph"

C29_OwnTextAndChildren ==
    C29_Case => \E r \in {_process_paragraph(Silent(arg), acc)} :
                    /\ result = (IF r.err = "none" THEN "ok" ELSE r.err)
                    /\ ret = r.text

\* a paragraph with text after its list, an unknown element inside the
\* list and another inside the paragraph of an item: nothing is raised
C29_Witness ==
    /\ C29_Case /\ result = "ok" /\ Silent(arg) # arg
    /\ \E i \in 1..Len(arg.children) :
          /\ arg.children[i].tag \in {ns \o "list", "list"}
          /\ \E d \in Range(Descendants(arg.children[i])) :
                d.tag = "wrong" /\ d.tail # None

(***************************************************************************)
(* C24: in corpus.search the key full_text of a reference is set when and  *)
(* only when api.process has ended without exception for it.  When         *)
(* api.process raises NameError and the reference has no abstract, or an   *)
(* empty one, the abstract extractor of the publisher of the answer is     *)
(* run on the same answer and what it returns becomes the abstract;        *)
(* an abstract that is not empty is never replaced.                        *)
(***************************************************************************)
\* the abstract extractor of a publisher
ExtractorOf(a) ==
    IF a = "elsevier" THEN "get_elsevier_abstract"
    ELSE IF a = "springer" THEN "get_springer_abstract"
    ELSE "get_ieee_abstract"

HasAbstract(v) == ~v.abstract.none /\ v.abstract.text # <<>>

\* a step of search is the iteration for the reference at srch.pos
C24_Iteration ==
    (srch.status = "running" /\ srch.pos <= Len(corpus) /\ srch' # srch)
    => LET p == srch.pos
           l == srch'.last
       IN /\ l.ref = p
          /\ \A q \in 1..Len(corpus) : q # p => corpus'[q] = corpus[q]
          /\ corpus'[p].full_text <=> (corpus[p].full_text \/ l.result = "ok")
          /\ l.result = "ok" => srch'.status = "running"
          /\ IF l.result = "NameError" /\ ~HasAbstract(corpus[p])
             THEN /\ l.abs = ExtractorOf(l.api)
                  /\ \E a \in {Abstract(ExtractorOf(l.api), l.answer)} :
                        IF a.err = "none"
                        THEN corpus'[p].abstract = [none |-> a.none, text |-> a.text]
                        ELSE corpus'[p].abstract = corpus[p].abstract
             ELSE corpus'[p].abstract = corpus[p].abstract

C24_AbstractFallback == [][C24_Iteration]_vars

\* api.process has raised NameError for a reference without abstract, and
\* the abstract found in the answer is now the abstract of the reference;
\* before it, a reference with an abstract has kept it after NameError
C24_Witness ==
    /\ srch.last.ref = 2 /\ srch.last.result = "NameError"
    /\ corpus[2].abstract.text = Lorem /\ ~corpus[2].full_text
    /\ corpus[1].abstract.text = <<"Abstract">>

(***************************************************************************)
(* C25 as stated: when api.process ends in ParseError, NameError or        *)
(* ValueError for a reference, that reference alone is skipped:            *)
(* corpus.search goes on with the references that remain.                  *)
(***************************************************************************)
C25_OthersProceed ==
    srch.last.result \in {"ParseError", "NameError", "ValueError"}
    => srch.status \in {"running", "returned"}

(***************************************************************************)
(* C26 as stated: with threshold t no IEEE request is sent for the first t *)
(* IEEE references, ieee_get_meta is sent for every later IEEE reference   *)
(* that has a DOI and no file, and the counter is the number of IEEE       *)
(* references met so far.  Stated on the first call of search, for the     *)
(* IEEE references that have a DOI.                                        *)
(***************************************************************************)
IsIeee(v) == v.pub = {"ieee"} /\ v.doi

C26_Threshold ==
    LET l == srch.last
        met == Cardinality({q \in 1..(l.ref - 1) : IsIeee(corpus[q])})
    IN (srch.run = 1 /\ l.ref # 0 /\ IsIeee(corpus[l.ref]) /\ l.skipped # "exists")
       => /\ (\E r \in l.sent : r.query = "ieee_get_meta") <=> met >= srch.threshold
          /\ srch.counter = met + 1

(***************************************************************************)
(* C27: _unknown_publisher asks Elsevier first.  An answer of Elsevier     *)
(* that is not empty is returned with "elsevier" and the Elsevier abstract *)
(* extractor, and Springer is not asked.  When the Elsevier query fails or *)
(* returns nothing Springer is asked: its answer is returned with          *)
(* "springer" and the Springer abstract extractor when it holds a body or  *)
(* an abstract element, else the result is (None, None, None).  A failure  *)
(* of the Elsevier query does not leave the function.                      *)
(***************************************************************************)
\* the answer holds an element of this name below its document element
Holds(ans, name) ==
    \E i \in 2..Len(ans) :
        ans[i].k \in {"open", "empty"} /\ ans[i].p = "" /\ ans[i].v = name

\* the last iteration has called _unknown_publisher (corpus.py:272-274)
C27_Case ==
    /\ srch.last.ref # 0 /\ srch.last.sent # {}
    /\ corpus[srch.last.ref].pub \cap {"elsevier", "springer"} = {}
    /\ \A r \in srch.last.sent : r.query \notin {"ieee_get_meta", "ieee_get_oa"}

C27_UnknownPublisher ==
    C27_Case =>
    LET l == srch.last
        asked(q) == {r \in l.sent : r.query = q}
    IN \E e \in asked("elsevier_get") :
          IF e.err = "none" /\ e.answer # <<>>
          THEN /\ l.api = "elsevier" /\ l.answer = e.answer
               /\ l.abs = "get_elsevier_abstract"
               /\ asked("springer_get") = {}
          ELSE \E s \in asked("springer_get") :
                  /\ s.err # "none" => srch.status = s.err
                  /\ (s.err = "none" /\ fromstring(s.answer).ok) =>
                        IF Holds(s.answer, "body") \/ Holds(s.answer, "abstract")
                        THEN /\ l.api = "springer" /\ l.answer = s.answer
                             /\ l.abs = "get_springer_abstract"
                        ELSE /\ l.api = "None" /\ l.answer = <<>> /\ l.abs = "None"
                             /\ srch.status \in {"running", "returned"}

\* the Elsevier query has failed, Springer has been asked and its answer,
\* which holds an abstract and no body, is taken
C27_Witness ==
    /\ C27_Case /\ srch.last.api = "springer"
    /\ \E e \in srch.last.sent : e.query = "elsevier_get" /\ e.err = "Exception"
    /\ ~Holds(srch.last.answer, "body")

(***************************************************************************)
(* C30 as stated: when corpus.search is called again on the same           *)
(* directory, a reference is skipped because its file exists only if       *)
(* api.process has ended without exception for it before; a file made or   *)
(* partly written by a call that failed is not taken for a full text.      *)
(***************************************************************************)
C30_SkippedOnlyIfDone ==
    srch.last.skipped = "exists" => corpus[srch.last.ref].full_text

====
